---- MODULE Spec2Model ----
(***************************************************************************)
(* Model of the report builder's calculation-to-SQL engine.                *)
(*                                                                         *)
(* The data warehouse (Deal, Tranche, TrancheBal) is a small relational    *)
(* database; SQL statements built through the ORM are records, and Rows    *)
(* evaluates a statement against the warehouse the way the database does:  *)
(* FROM (joined entities, and every other referenced entity as a cartesian *)
(* product), WHERE, GROUP BY, aggregate.                                   *)
(*                                                                         *)
(* Numbers: amounts are integers, rates are in hundredths (0.02 is 2); a   *)
(* SQL value is <<kind, numerator, denominator>>.                          *)
(***************************************************************************)
EXTENDS Integers, Sequences, FiniteSets, TLC

\* ----------------------------------------------------------------- bounds
MaxTranches == 2
MaxBalRows == 2
MaxCalcs == 2
MaxReports == 1

\* ------------------------------------------------------------ sample data
DealNums == {101, 102}
TrIds == {"A", "B"}
Cycles == {202401, 202402}
\* <<tr_end_bal_amt, tr_pass_thru_rte>> of a TrancheBal row
Measures == {<<100, 2>>, <<50, 4>>, <<0, 4>>}

VARIABLES
    deal,        \* Deal table: set of dl_nbr
    tranche,     \* Tranche table: set of <<dl_nbr, tr_id>>
    tranchebal,  \* TrancheBal table: set of rows
    calculations,        \* config: Calculation rows, id = position
    reports,             \* config: Report rows, id = position
    report_deals,        \* config: ReportDeal rows
    report_tranches,     \* config: ReportTranche rows
    report_calculations, \* config: ReportCalculation rows
    execution_logs,      \* config: ReportExecutionLog rows
    pc,          \* "ready" before an operation, "done" after the last one
    op,          \* the operation that ran
    req,         \* its arguments
    res,         \* what it returned
    prev,        \* operation, arguments and result of the call before it
    builder,     \* the FilterBuilder shared by the threads: conditions, parameters
    threads      \* per thread: position in build_report_query, arguments, results

warehouse == <<deal, tranche, tranchebal>>
config == <<calculations, reports, report_deals, report_tranches,
            report_calculations, execution_logs>>
compiler == <<builder, threads>>
vars == <<deal, tranche, tranchebal, calculations, reports, report_deals,
          report_tranches, report_calculations, execution_logs, pc, op, req, res, prev,
          builder, threads>>

\* ------------------------------------------------------------- SQL values
Null == <<"null", 0, 1>>
DivError == <<"error", 0, 1>>
Num(n) == <<"num", n, 1>>
Ratio(n, d) == <<"num", n, d>>
IsNull(v) == v[1] = "null"
IsNum(v) == v[1] = "num"
\* equality of two SQL numbers as rationals
SameValue(v, w) ==
    \/ v[1] # "num" /\ v[1] = w[1]
    \/ v[1] = "num" /\ w[1] = "num" /\ v[2] * w[3] = w[2] * v[3]

\* NULLIF(x, y)
NullIf(v, n) == IF IsNum(v) /\ v[2] = n * v[3] THEN Null ELSE v
\* x / y: NULL when an operand is NULL, an error on a zero divisor
Divide(v, w) ==
    IF IsNull(v) \/ IsNull(w) THEN Null
    ELSE IF w[2] = 0 THEN DivError
    ELSE Ratio(v[2] * w[3], v[3] * w[2])

\* ------------------------------------------------------------ calculations
NoWeight == ""
Calc(name, fn, model, field, weight, level) ==
    [name |-> name, aggregation_function |-> fn, source_model |-> model,
     source_field |-> field, weight_field |-> weight, group_level |-> level]

AggregationFunction == {"SUM", "AVG", "COUNT", "MIN", "MAX", "WEIGHTED_AVG"}
SourceModel == {"Deal", "Tranche", "TrancheBal"}
GroupLevel == {"deal", "tranche"}

\* columns of the warehouse models
Columns(model) ==
    CASE model = "Deal" -> {"dl_nbr"}
      [] model = "Tranche" -> {"dl_nbr", "tr_id"}
      [] model = "TrancheBal" ->
            {"dl_nbr", "tr_id", "cycle_cde", "tr_end_bal_amt", "tr_pass_thru_rte"}

\* Calculation.get_required_models
get_required_models(calc) ==
    {"Deal"}
    \cup (IF calc.source_model \in {"Tranche", "TrancheBal"} THEN {"Tranche"} ELSE {})
    \cup (IF calc.source_model = "TrancheBal" THEN {"TrancheBal"} ELSE {})

\* Calculation.get_sqlalchemy_function: the aggregate expression, or the
\* exception the call raises
get_sqlalchemy_function(calc) ==
    IF calc.source_field \notin Columns(calc.source_model)
    THEN [raises |-> "AttributeError", fn |-> "", model |-> "", field |-> "", weight |-> ""]
    ELSE IF calc.aggregation_function \in {"SUM", "AVG", "COUNT", "MIN", "MAX"}
    THEN [raises |-> "", fn |-> calc.aggregation_function, model |-> calc.source_model,
          field |-> calc.source_field, weight |-> ""]
    ELSE IF calc.aggregation_function = "WEIGHTED_AVG"
    THEN IF calc.weight_field = NoWeight
         THEN [raises |-> "ValueError", fn |-> "", model |-> "", field |-> "", weight |-> ""]
         ELSE IF calc.weight_field \notin Columns(calc.source_model)
         THEN [raises |-> "AttributeError", fn |-> "", model |-> "", field |-> "", weight |-> ""]
         ELSE [raises |-> "", fn |-> "WEIGHTED_AVG", model |-> calc.source_model,
               field |-> calc.source_field, weight |-> calc.weight_field]
    ELSE [raises |-> "ValueError", fn |-> "", model |-> "", field |-> "", weight |-> ""]

\* ----------------------------------------------------- statements (SELECT)
\* A column reference: a warehouse column, the statement's aggregate
\* (model "agg"), or a column of the i-th outer-joined subquery (model "sub").
Col(model, column) == [model |-> model, column |-> column, sub |-> 0]
SubCol(i, column) == [model |-> "sub", column |-> column, sub |-> i]
AggCol == [model |-> "agg", column |-> "", sub |-> 0]
\* a WHERE predicate: column IN (values) or column = value
In(model, column, values) == [model |-> model, column |-> column, op |-> "in", values |-> values]
Eq(model, column, value) == [model |-> model, column |-> column, op |-> "eq", values |-> <<value>>]
NoAgg == [raises |-> "", fn |-> "", model |-> "", field |-> "", weight |-> ""]

Range(s) == {s[i] : i \in DOMAIN s}

\* the entities a statement mentions outside its JOIN clauses
Referenced(stmt) ==
    {stmt.columns[i].c.model : i \in DOMAIN stmt.columns}
    \cup {stmt.where[i].model : i \in DOMAIN stmt.where}
    \cup {stmt.group_by[i].model : i \in DOMAIN stmt.group_by}
    \cup {stmt.agg.model}

\* FROM list: select_from, the joined entities, and every other referenced
\* entity; the latter are not joined to anything (a cartesian product)
FromEntities(stmt) ==
    ({stmt.select_from} \cup Range(stmt.joins) \cup Referenced(stmt)) \cap SourceModel

NoTranche == <<0, "">>
NoBal == [dl_nbr |-> 0, tr_id |-> "", cycle_cde |-> 0, tr_end_bal_amt |-> 0,
          tr_pass_thru_rte |-> 0]

\* ON Deal.dl_nbr == Tranche.dl_nbr
JoinTranche(d, t) == d = t[1]
\* ON Tranche.dl_nbr == TrancheBal.dl_nbr AND Tranche.tr_id == TrancheBal.tr_id
JoinTrancheBalDealOnly(t, b) == t[1] = b.dl_nbr
JoinTrancheBal(t, b) == t[1] = b.dl_nbr /\ t[2] = b.tr_id

\* rows of the FROM clause before the outer joins
FromRows(stmt) ==
    LET ents == FromEntities(stmt)
        D == IF "Deal" \in ents THEN deal ELSE {0}
        T == IF "Tranche" \in ents THEN tranche ELSE {NoTranche}
        B == IF "TrancheBal" \in ents THEN tranchebal ELSE {NoBal}
    IN  {[d |-> r[1], t |-> r[2], b |-> r[3], subs |-> <<>>] :
            r \in {x \in D \X T \X B :
                    /\ "Tranche" \in Range(stmt.joins) => JoinTranche(x[1], x[2])
                    /\ "TrancheBal" \in Range(stmt.joins) => JoinTrancheBal(x[2], x[3])}}

Str(s) == <<"str", s, 1>>

\* value of a column in a joined row
ColValue(row, c) ==
    CASE c.model = "Deal" -> Num(row.d)
      [] c.model = "Tranche" ->
            IF c.column = "tr_id" THEN Str(row.t[2]) ELSE Num(row.t[1])
      [] c.model = "TrancheBal" ->
            IF c.column = "tr_id" THEN Str(row.b.tr_id) ELSE Num(row.b[c.column])
      [] c.model = "sub" -> row.subs[c.sub].cells[c.column]

Holds(row, p) ==
    LET v == ColValue(row, Col(p.model, p.column))
    IN  \E i \in DOMAIN p.values : v[2] = p.values[i]

Where(stmt, rows) ==
    {r \in rows : \A i \in DOMAIN stmt.where : Holds(r, stmt.where[i])}

\* ------------------------------------------------------------- aggregates
RECURSIVE SumField(_, _, _)
SumField(rows, model, field) ==
    IF rows = {} THEN 0
    ELSE LET r == CHOOSE x \in rows : TRUE
         IN  ColValue(r, Col(model, field))[2] + SumField(rows \ {r}, model, field)

RECURSIVE SumProduct(_, _, _, _)
SumProduct(rows, model, field, weight) ==
    IF rows = {} THEN 0
    ELSE LET r == CHOOSE x \in rows : TRUE
         IN  ColValue(r, Col(model, field))[2] * ColValue(r, Col(model, weight))[2]
             + SumProduct(rows \ {r}, model, field, weight)

FieldValues(rows, model, field) == {ColValue(r, Col(model, field))[2] : r \in rows}

\* SUM(field * weight) / SUM(weight): no guard on the divisor
WeightedAvgUnguarded(rows, e) ==
    IF rows = {} THEN Null
    ELSE Divide(Num(SumProduct(rows, e.model, e.field, e.weight)),
                Num(SumField(rows, e.model, e.weight)))
\* SUM(field * weight) / NULLIF(SUM(weight), 0)
WeightedAvg(rows, e) ==
    IF rows = {} THEN Null
    ELSE Divide(Num(SumProduct(rows, e.model, e.field, e.weight)),
                NullIf(Num(SumField(rows, e.model, e.weight)), 0))

\* value of the aggregate expression e over the rows of one group; the
\* columns of the warehouse are NOT NULL, so COUNT counts every row
AggValue(rows, e) ==
    CASE e.fn = "COUNT" -> Num(Cardinality(rows))
      [] e.fn = "SUM" ->
            IF rows = {} THEN Null ELSE Num(SumField(rows, e.model, e.field))
      [] e.fn = "AVG" ->
            IF rows = {} THEN Null
            ELSE Ratio(SumField(rows, e.model, e.field), Cardinality(rows))
      [] e.fn = "MIN" ->
            IF rows = {} THEN Null
            ELSE LET vs == FieldValues(rows, e.model, e.field)
                 IN  Num(CHOOSE v \in vs : \A w \in vs : v <= w)
      [] e.fn = "MAX" ->
            IF rows = {} THEN Null
            ELSE LET vs == FieldValues(rows, e.model, e.field)
                 IN  Num(CHOOSE v \in vs : \A w \in vs : v >= w)
      [] e.fn = "WEIGHTED_AVG" -> WeightedAvg(rows, e)

\* ---------------------------------------------------- statement evaluation
Select(columns, agg, joins, where, group_by, distinct, outerjoins) ==
    [columns |-> columns, agg |-> agg, select_from |-> "Deal", joins |-> joins,
     where |-> where, group_by |-> group_by, distinct |-> distinct,
     outerjoins |-> outerjoins]

Labels(stmt) == {stmt.columns[i].label : i \in DOMAIN stmt.columns}
ColumnOf(stmt, label) ==
    stmt.columns[CHOOSE i \in DOMAIN stmt.columns : stmt.columns[i].label = label].c

\* the row an outer join supplies when the subquery has no matching row
NullRow(stmt) == [rid |-> <<>>, cells |-> [l \in Labels(stmt) |-> Null]]

\* ON left column = subquery column, for every pair of the join condition
Matches(row, sub, on) ==
    \A i \in DOMAIN on : ColValue(row, on[i][1]) = sub.cells[on[i][2]]

\* rows LEFT OUTER JOIN subRows ON on
LeftOuterJoin(rows, subRows, on, nullRow) ==
    UNION {LET m == {x \in subRows : Matches(r, x, on)}
           IN  IF m = {} THEN {[r EXCEPT !.subs = Append(r.subs, nullRow)]}
               ELSE {[r EXCEPT !.subs = Append(r.subs, s)] : s \in m}
            : r \in rows}

RECURSIVE RowsOf(_)
RECURSIVE JoinedRows(_, _)

\* the FROM clause with the first n outer joins applied
JoinedRows(stmt, n) ==
    IF n = 0 THEN FromRows(stmt)
    ELSE LET oj == stmt.outerjoins[n]
         IN  LeftOuterJoin(JoinedRows(stmt, n - 1), RowsOf(oj.stmt), oj.on,
                           NullRow(oj.stmt))

\* SELECT ... GROUP BY: one row per group, whatever is selected
GroupRows(stmt, src) ==
    LET key(r) == [i \in DOMAIN stmt.group_by |-> ColValue(r, stmt.group_by[i])]
        keys == IF stmt.group_by = <<>> THEN {<<>>} ELSE {key(r) : r \in src}
    IN  {LET g == {r \in src : key(r) = k}
         IN  [rid |-> k, cells |-> [l \in Labels(stmt) |->
                 LET c == ColumnOf(stmt, l)
                 IN  IF c.model = "agg" THEN AggValue(g, stmt.agg)
                     ELSE ColValue(CHOOSE r \in g : TRUE, c)]]
          : k \in keys}

\* SELECT without GROUP BY or aggregate: one row per source row
ProjectRows(stmt, src) ==
    {[rid |-> r, cells |-> [l \in Labels(stmt) |-> ColValue(r, ColumnOf(stmt, l))]]
       : r \in src}

\* DISTINCT
Distinct(rows) == {[rid |-> <<>>, cells |-> o.cells] : o \in rows}

\* the rows a statement returns; rid tells apart equal rows of a result
\* that is not DISTINCT
RowsOf(stmt) ==
    LET src == Where(stmt, JoinedRows(stmt, Len(stmt.outerjoins)))
        out == IF stmt.group_by # <<>> \/ stmt.agg.fn # ""
               THEN GroupRows(stmt, src)
               ELSE ProjectRows(stmt, src)
    IN  IF stmt.distinct THEN Distinct(out) ELSE out

\* ------------------------------------------------------------------ names
\* a name is a sequence of characters
UpperCase == <<"A", "B", "C", "D", "E", "F", "G", "H", "I", "J", "K", "L", "M",
               "N", "O", "P", "Q", "R", "S", "T", "U", "V", "W", "X", "Y", "Z">>
LowerCase == <<"a", "b", "c", "d", "e", "f", "g", "h", "i", "j", "k", "l", "m",
               "n", "o", "p", "q", "r", "s", "t", "u", "v", "w", "x", "y", "z">>
\* str.lower, one character
Lower(ch) ==
    IF \E i \in DOMAIN UpperCase : UpperCase[i] = ch
    THEN LowerCase[CHOOSE i \in DOMAIN UpperCase : UpperCase[i] = ch]
    ELSE ch
\* str.replace(old, new), one character
Replace(ch, old, new) == IF ch = old THEN new ELSE ch

\* QueryEngine._get_calc_column_name
get_calc_column_name(calc) ==
    [i \in DOMAIN calc.name |-> Replace(Replace(Lower(calc.name[i]), " ", "_"), "-", "_")]

\* ------------------------------------------------------------ QueryEngine
Labelled(c, label) == [c |-> c, label |-> label]

\* WHERE of the subquery: the three filters, whatever is joined
SubqueryFilters(calc, deal_numbers, tranche_ids, cycle_code) ==
    <<In("Deal", "dl_nbr", deal_numbers),
      In("Tranche", "tr_id", tranche_ids),
      Eq("TrancheBal", "cycle_cde", cycle_code)>>

\* the JOINs a calculation's source model requires, in order
RequiredJoins(calc) ==
    (IF "Tranche" \in get_required_models(calc) THEN <<"Tranche">> ELSE <<>>)
    \o (IF "TrancheBal" \in get_required_models(calc) THEN <<"TrancheBal">> ELSE <<>>)

\* GROUP BY of the subquery that groups by tranche at either level
SubqueryGroupByTranche(aggregation_level) ==
    <<Col("Deal", "dl_nbr"), Col("Tranche", "tr_id")>>
\* GROUP BY of the subquery
SubqueryGroupBy(aggregation_level) ==
    IF aggregation_level = "tranche"
    THEN <<Col("Deal", "dl_nbr"), Col("Tranche", "tr_id")>>
    ELSE <<Col("Deal", "dl_nbr")>>

\* QueryEngine._build_calculation_subquery; agg.raises is the exception of
\* get_sqlalchemy_function, when it raised
build_calculation_subquery(calc, deal_numbers, tranche_ids, cycle_code, aggregation_level) ==
    Select(
        (IF aggregation_level = "tranche"
         THEN <<Labelled(Col("Deal", "dl_nbr"), <<"calc_deal_nbr">>),
                Labelled(Col("Tranche", "tr_id"), <<"calc_tranche_id">>)>>
         ELSE <<Labelled(Col("Deal", "dl_nbr"), <<"calc_deal_nbr">>)>>)
        \o <<Labelled(AggCol, get_calc_column_name(calc))>>,
        get_sqlalchemy_function(calc),
        RequiredJoins(calc),
        SubqueryFilters(calc, deal_numbers, tranche_ids, cycle_code),
        SubqueryGroupBy(aggregation_level),
        FALSE,
        <<>>)

\* ON clause of the outer join that compares the deal only
SubqueryOnDealOnly(aggregation_level) ==
    <<<<Col("Deal", "dl_nbr"), <<"calc_deal_nbr">>>>>>
\* ON clause of the outer join of a calculation's subquery
SubqueryOn(aggregation_level) ==
    IF aggregation_level = "tranche"
    THEN <<<<Col("Deal", "dl_nbr"), <<"calc_deal_nbr">>>>,
           <<Col("Tranche", "tr_id"), <<"calc_tranche_id">>>>>>
    ELSE <<<<Col("Deal", "dl_nbr"), <<"calc_deal_nbr">>>>>>

\* the first exception get_sqlalchemy_function raises over a list, or ""
RECURSIVE FirstRaise(_)
FirstRaise(calcs) ==
    IF calcs = <<>> THEN ""
    ELSE IF get_sqlalchemy_function(Head(calcs)).raises # ""
    THEN get_sqlalchemy_function(Head(calcs)).raises
    ELSE FirstRaise(Tail(calcs))

\* the base columns of the consolidated query
BaseColumns(aggregation_level) ==
    IF aggregation_level = "tranche"
    THEN <<Labelled(Col("Deal", "dl_nbr"), <<"deal_number">>),
           Labelled(Col("Tranche", "tr_id"), <<"tranche_id">>),
           Labelled(Col("TrancheBal", "cycle_cde"), <<"cycle_code">>)>>
    ELSE <<Labelled(Col("Deal", "dl_nbr"), <<"deal_number">>),
           Labelled(Col("TrancheBal", "cycle_cde"), <<"cycle_code">>)>>

\* the base filters without the cycle
BaseFiltersNoCycle(deal_numbers, tranche_ids, cycle_code) ==
    <<In("Deal", "dl_nbr", deal_numbers),
      In("Tranche", "tr_id", tranche_ids)>>
\* WHERE of the base enumeration
BaseFilters(deal_numbers, tranche_ids, cycle_code) ==
    <<In("Deal", "dl_nbr", deal_numbers),
      In("Tranche", "tr_id", tranche_ids),
      Eq("TrancheBal", "cycle_cde", cycle_code)>>

\* the base joins without TrancheBal
BaseJoinsNoBal == <<"Tranche">>
\* JOINs of the base enumeration: Deal JOIN Tranche JOIN TrancheBal
BaseJoins == <<"Tranche", "TrancheBal">>

\* GROUP BY of the consolidated query
ConsolidatedGroupBy(aggregation_level) ==
    IF aggregation_level = "tranche"
    THEN <<Col("Deal", "dl_nbr"), Col("Tranche", "tr_id"), Col("TrancheBal", "cycle_cde")>>
    ELSE <<Col("Deal", "dl_nbr"), Col("TrancheBal", "cycle_cde")>>

\* QueryEngine.build_consolidated_query
build_consolidated_query(deal_numbers, tranche_ids, cycle_code, calcs, aggregation_level) ==
    Select(
        BaseColumns(aggregation_level)
        \o [i \in DOMAIN calcs |->
              Labelled(SubCol(i, get_calc_column_name(calcs[i])), calcs[i].name)],
        NoAgg,
        BaseJoins,
        BaseFilters(deal_numbers, tranche_ids, cycle_code),
        ConsolidatedGroupBy(aggregation_level),
        TRUE,
        [i \in DOMAIN calcs |->
            [stmt |-> build_calculation_subquery(calcs[i], deal_numbers,
                          tranche_ids, cycle_code, aggregation_level),
             on |-> SubqueryOn(aggregation_level)]])

\* ---------------------------------------------------------- ReportService
ReportRow(dl_nbr, tr_id, cycle_cde, values) ==
    [dl_nbr |-> dl_nbr, tr_id |-> tr_id, cycle_cde |-> cycle_cde, values |-> values]
NoTrId == ""

\* base_results of _execute_deal_level_report / _execute_tranche_level_report
base_results_query(deal_numbers, tranche_ids, cycle_code, aggregation_level) ==
    Select(
        IF aggregation_level = "tranche"
        THEN <<Labelled(Col("Deal", "dl_nbr"), <<"dl_nbr">>),
               Labelled(Col("Tranche", "tr_id"), <<"tr_id">>),
               Labelled(Col("TrancheBal", "cycle_cde"), <<"cycle_cde">>)>>
        ELSE <<Labelled(Col("Deal", "dl_nbr"), <<"dl_nbr">>),
               Labelled(Col("TrancheBal", "cycle_cde"), <<"cycle_cde">>)>>,
        NoAgg,
        <<"Tranche", "TrancheBal">>,
        <<In("Deal", "dl_nbr", deal_numbers),
          In("Tranche", "tr_id", tranche_ids),
          Eq("TrancheBal", "cycle_cde", cycle_code)>>,
        <<>>,
        TRUE,
        <<>>)

\* the query of one calculation for one base row (base is its cells)
calculation_query(calc, base, tranche_ids, aggregation_level) ==
    Select(
        <<Labelled(AggCol, <<"scalar">>)>>,
        get_sqlalchemy_function(calc),
        RequiredJoins(calc),
        <<Eq("Deal", "dl_nbr", base[<<"dl_nbr">>][2]),
          IF aggregation_level = "tranche"
          THEN Eq("Tranche", "tr_id", base[<<"tr_id">>][2])
          ELSE In("Tranche", "tr_id", tranche_ids),
          Eq("TrancheBal", "cycle_cde", base[<<"cycle_cde">>][2])>>,
        <<>>,
        FALSE,
        <<>>)

\* Query.scalar(): the first column of the first row, None without rows
Scalar(stmt) ==
    LET rows == RowsOf(stmt)
    IN  IF rows = {} THEN Null ELSE (CHOOSE r \in rows : TRUE).cells[<<"scalar">>]

\* try: values[calc.name] = query.scalar(); except Exception: None
calculation_value(calc, base, tranche_ids, aggregation_level) ==
    IF get_sqlalchemy_function(calc).raises # "" THEN Null
    ELSE LET v == Scalar(calculation_query(calc, base, tranche_ids, aggregation_level))
         IN  IF v = DivError THEN Null ELSE v

\* the orders in which a query without ORDER BY may return its rows
Orders(rows) ==
    {f \in [1..Cardinality(rows) -> rows] : \A i, j \in DOMAIN f : f[i] = f[j] => i = j}

RECURSIVE Flatten(_)
Flatten(ss) == IF ss = <<>> THEN <<>> ELSE Head(ss) \o Flatten(Tail(ss))


\* _execute_deal_level_report / _execute_tranche_level_report, the base rows
\* arriving in the given order: the rows returned and the statements sent to
\* the warehouse
level_report(deal_numbers, tranche_ids, cycle_code, calcs, aggregation_level, order) ==
    LET names == {calcs[i].name : i \in DOMAIN calcs}
        calcOf(n) == calcs[CHOOSE i \in DOMAIN calcs :
                        /\ calcs[i].name = n
                        /\ \A j \in DOMAIN calcs :
                              calcs[j].name = n => j <= i]
        Built(c) == get_sqlalchemy_function(c).raises = ""
    IN  [data |-> [i \in DOMAIN order |->
            ReportRow(order[i][<<"dl_nbr">>][2],
                      IF aggregation_level = "tranche" THEN order[i][<<"tr_id">>][2] ELSE NoTrId,
                      order[i][<<"cycle_cde">>][2],
                      [n \in names |-> calculation_value(calcOf(n), order[i], tranche_ids,
                                                         aggregation_level)])],
         executed |->
            <<base_results_query(deal_numbers, tranche_ids, cycle_code, aggregation_level)>>
            \o Flatten([i \in DOMAIN order |->
                  LET built == SelectSeq(calcs, Built)
                  IN  [j \in DOMAIN built |->
                          calculation_query(built[j], order[i], tranche_ids,
                                            aggregation_level)]])]

BaseResults(deal_numbers, tranche_ids, cycle_code, aggregation_level) ==
    {r.cells : r \in RowsOf(base_results_query(deal_numbers, tranche_ids, cycle_code,
                                               aggregation_level))}

\* label of a calculation's subquery column in the previewed statement
orm_column_name(calc) ==
    [i \in DOMAIN calc.name |-> Replace(Lower(calc.name[i]), " ", "_")]

\* ReportService._generate_orm_deal_level_query and
\* _generate_orm_tranche_level_query: one consolidated statement between two
\* comments
generate_orm_level_query(deal_numbers, tranche_ids, cycle_code, calcs, aggregation_level) ==
    LET filters == <<In("Deal", "dl_nbr", deal_numbers),
                     In("Tranche", "tr_id", tranche_ids),
                     Eq("TrancheBal", "cycle_cde", cycle_code)>>
        tr == aggregation_level = "tranche"
        calc_subquery(calc) ==
            Select(
                (IF tr THEN <<Labelled(Col("Deal", "dl_nbr"), <<"calc_deal_nbr">>),
                              Labelled(Col("Tranche", "tr_id"), <<"calc_tranche_id">>)>>
                 ELSE <<Labelled(Col("Deal", "dl_nbr"), <<"calc_deal_nbr">>)>>)
                \o <<Labelled(AggCol, orm_column_name(calc))>>,
                get_sqlalchemy_function(calc),
                RequiredJoins(calc),
                filters,
                IF tr THEN <<Col("Deal", "dl_nbr"), Col("Tranche", "tr_id")>>
                ELSE <<Col("Deal", "dl_nbr")>>,
                FALSE,
                <<>>)
    IN  [header |-> "-- Consolidated report query with all calculations LEFT JOINed:",
         statement |->
            Select(
                (IF tr THEN <<Labelled(Col("Deal", "dl_nbr"), <<"deal_number">>),
                              Labelled(Col("Tranche", "tr_id"), <<"tranche_id">>),
                              Labelled(Col("TrancheBal", "cycle_cde"), <<"cycle_code">>)>>
                 ELSE <<Labelled(Col("Deal", "dl_nbr"), <<"deal_number">>),
                        Labelled(Col("TrancheBal", "cycle_cde"), <<"cycle_code">>)>>)
                \o [i \in DOMAIN calcs |->
                      Labelled(SubCol(i, orm_column_name(calcs[i])), calcs[i].name)],
                NoAgg,
                <<"Tranche", "TrancheBal">>,
                filters,
                IF tr THEN <<Col("Deal", "dl_nbr"), Col("Tranche", "tr_id"),
                             Col("TrancheBal", "cycle_cde")>>
                ELSE <<Col("Deal", "dl_nbr"), Col("TrancheBal", "cycle_cde")>>,
                TRUE,
                [i \in DOMAIN calcs |->
                    [stmt |-> calc_subquery(calcs[i]),
                     on |-> IF tr
                            THEN <<<<Col("Deal", "dl_nbr"), <<"calc_deal_nbr">>>>,
                                   <<Col("Tranche", "tr_id"), <<"calc_tranche_id">>>>>>
                            ELSE <<<<Col("Deal", "dl_nbr"), <<"calc_deal_nbr">>>>>>]]),
         footer |-> IF tr THEN "-- This single query retrieves all tranche-level metrics"
                    ELSE "-- This single query retrieves all deal-level metrics"]

\* an active Report row with this id
ActiveReport(report_id) ==
    report_id \in DOMAIN reports /\ reports[report_id].is_active

\* [rd.deal_number for rd in report.report_deals]
ReportDealNumbers(report_id) ==
    LET Mine(rd) == rd.report_id = report_id
        rows == SelectSeq(report_deals, Mine)
    IN  [i \in DOMAIN rows |-> rows[i].deal_number]

\* [rt.tranche_id for rt in report.report_tranches]
ReportTrancheIds(report_id) ==
    LET Mine(rt) == rt.report_id = report_id
        rows == SelectSeq(report_tranches, Mine)
    IN  [i \in DOMAIN rows |-> rows[i].tranche_id]

\* the Calculation rows of the report's ReportCalculation rows, which are
\* stored in ascending display_order; a row is found whether active or not
ReportCalcs(report_id) ==
    LET Mine(rc) == rc.report_id = report_id /\ rc.calculation_id \in DOMAIN calculations
        rows == SelectSeq(report_calculations, Mine)
    IN  [i \in DOMAIN rows |-> calculations[rows[i].calculation_id].def]

\* ----------------------------------------------------------------- inputs
\* Filters. The warehouses drawn by Warehouse are closed under renaming of
\* deals, tranches and cycles, so the lists <<102>>, <<"B">> and the cycle
\* 202402 are mirror images of the ones below.
DealLists == {<<101>>, <<101, 102>>}
TrancheLists == {<<"A">>, <<"A", "B">>}
RequestCycles == {202401}

\* the fields calculations aggregate
NumericFields ==
    {<<"Deal", "dl_nbr">>, <<"Tranche", "dl_nbr">>,
     <<"TrancheBal", "tr_end_bal_amt">>, <<"TrancheBal", "tr_pass_thru_rte">>}

DealCount == Calc(<<"D", "l", " ", "C", "t">>, "COUNT", "Deal", "dl_nbr", NoWeight, "deal")
TrancheCount == Calc(<<"T", "r", " ", "C", "t">>, "COUNT", "Tranche", "tr_id", NoWeight, "deal")
WeightedAvgRate ==
    Calc(<<"W", "-", "A", "v", "g">>, "WEIGHTED_AVG", "TrancheBal",
         "tr_pass_thru_rte", "tr_end_bal_amt", "deal")
WeightedAvgNoWeight ==
    Calc(<<"B", "a", "d">>, "WEIGHTED_AVG", "TrancheBal", "tr_pass_thru_rte", NoWeight, "deal")

\* one calculation of every aggregation function over every source model
AnyCalcs ==
    {Calc(<<"X">>, fn, mf[1], mf[2], NoWeight, "deal") :
        fn \in AggregationFunction \ {"WEIGHTED_AVG"}, mf \in NumericFields}
    \cup {TrancheCount, WeightedAvgRate, WeightedAvgNoWeight,
          Calc(<<"W", "-", "D">>, "WEIGHTED_AVG", "Tranche", "dl_nbr", "dl_nbr", "deal")}

\* lists of distinct calculations of the three source models
EngineCalcs == {DealCount, TrancheCount, WeightedAvgRate}
CalcLists ==
    {l \in UNION {[1..n -> EngineCalcs] : n \in 0..MaxCalcs} :
        \A i, j \in DOMAIN l : l[i] = l[j] => i = j}

\* ------------------------------------------------------------------- Init
BalRow(k, m) ==
    [dl_nbr |-> k[1][1], tr_id |-> k[1][2], cycle_cde |-> k[2],
     tr_end_bal_amt |-> m[1], tr_pass_thru_rte |-> m[2]]

\* a warehouse that respects its keys: a tranche belongs to a deal, a
\* balance row to a tranche, one balance row per tranche and cycle
WarehouseOf(measures) ==
    /\ deal \in SUBSET DealNums
    /\ tranche \in {T \in SUBSET (deal \X TrIds) : Cardinality(T) <= MaxTranches}
    /\ \E K \in {k \in SUBSET (tranche \X Cycles) : Cardinality(k) <= MaxBalRows} :
         \E f \in [K -> measures] :
            tranchebal = {BalRow(k, f[k]) : k \in K}
Warehouse == WarehouseOf(Measures)

\* seed_default_calculations: the calculations the config database starts with
SeededCalculations ==
    <<[def |-> TrancheCount, is_active |-> TRUE],
      [def |-> WeightedAvgRate, is_active |-> TRUE]>>

Config ==
    /\ calculations = SeededCalculations
    /\ reports = <<>>
    /\ report_deals = <<>>
    /\ report_tranches = <<>>
    /\ report_calculations = <<>>
    /\ execution_logs = <<>>

\* FilterBuilder.__init__
NewFilterBuilder == [conditions |-> <<>>, parameters |-> <<>>]

\* the threads that may call build_report_query, none of them in a call
Threads == {"t1", "t2"}
IdleThread ==
    [at |-> "idle", call |-> 0, args |-> <<>>, where_clause |-> <<>>,
     params |-> <<>>, main_where_clause |-> <<>>]

Idle ==
    /\ pc = "ready"
    /\ op = ""
    /\ req = <<>>
    /\ res = <<>>
    /\ prev = <<>>
    /\ builder = NewFilterBuilder
    /\ threads = [t \in Threads |-> IdleThread]

Init == Warehouse /\ Config /\ Idle

\* reports are run over warehouses with a funded and an unfunded balance
ReportMeasures == {<<100, 2>>, <<0, 4>>}
InitReport == WarehouseOf(ReportMeasures) /\ Config /\ Idle

\* calculation definitions a client submits
NewCalcs ==
    {WeightedAvgNoWeight,
     Calc(<<"B", "a", "d">>, "WEIGHTED_AVG", "TrancheBal", "tr_end_bal_amt", NoWeight, "deal")}

\* lists of calculation names a template request selects
CalcNames == {SeededCalculations[i].def.name : i \in DOMAIN SeededCalculations}
                \cup {c.name : c \in NewCalcs}
CalcNameLists == UNION {[1..n -> CalcNames] : n \in 1..MaxCalcs}

\* the warehouse of the scenarios: deals 101 and 102, tranches A and B of 101
ScenarioWarehouse ==
    /\ deal = DealNums
    /\ tranche = {<<101, "A">>, <<101, "B">>}
    /\ \E K \in {k \in SUBSET (tranche \X Cycles) : Cardinality(k) <= MaxBalRows} :
         \E f \in [K -> Measures] :
            tranchebal = {BalRow(k, f[k]) : k \in K}

InitService == ScenarioWarehouse /\ Config /\ Idle

\* ---------------------------------------------------------------- actions
\* QueryEngine._build_calculation_subquery, and the rows the subquery returns
BuildCalculationSubquery ==
    /\ pc = "ready"
    /\ \E calc \in AnyCalcs, deal_numbers \in DealLists, tranche_ids \in TrancheLists,
          cycle_code \in RequestCycles, aggregation_level \in GroupLevel :
         LET stmt == build_calculation_subquery(calc, deal_numbers, tranche_ids,
                                                cycle_code, aggregation_level)
         IN  /\ op' = "build_calculation_subquery"
             /\ req' = [calc |-> calc, deal_numbers |-> deal_numbers,
                        tranche_ids |-> tranche_ids, cycle_code |-> cycle_code,
                        aggregation_level |-> aggregation_level]
             /\ res' = [raised |-> stmt.agg.raises, stmt |-> stmt,
                        rows |-> IF stmt.agg.raises = "" THEN RowsOf(stmt) ELSE {}]
    /\ pc' = "done"
    /\ UNCHANGED <<compiler, warehouse, config, prev>>

\* QueryEngine.execute_report_query: build the consolidated query, run it
ExecuteReportQuery ==
    /\ pc = "ready"
    /\ \E calcs \in CalcLists, deal_numbers \in DealLists,
          tranche_ids \in TrancheLists, cycle_code \in RequestCycles,
          aggregation_level \in GroupLevel :
         LET raised == FirstRaise(calcs)
             stmt == build_consolidated_query(deal_numbers, tranche_ids, cycle_code,
                                              calcs, aggregation_level)
         IN  /\ op' = "execute_report_query"
             /\ req' = [calculations |-> calcs, deal_numbers |-> deal_numbers,
                        tranche_ids |-> tranche_ids, cycle_code |-> cycle_code,
                        aggregation_level |-> aggregation_level]
             /\ res' = [raised |-> raised,
                        rows |-> IF raised = "" THEN RowsOf(stmt) ELSE {}]
    /\ pc' = "done"
    /\ UNCHANGED <<compiler, warehouse, config, prev>>

\* ReportService._execute_deal_level_report and _execute_tranche_level_report
ExecuteLevelReport ==
    /\ pc = "ready"
    /\ \E calcs \in CalcLists, deal_numbers \in DealLists,
          tranche_ids \in TrancheLists, cycle_code \in RequestCycles,
          aggregation_level \in GroupLevel :
         \E order \in Orders(BaseResults(deal_numbers, tranche_ids, cycle_code,
                                         aggregation_level)) :
            /\ op' = "execute_level_report"
            /\ req' = [calculations |-> calcs, deal_numbers |-> deal_numbers,
                       tranche_ids |-> tranche_ids, cycle_code |-> cycle_code,
                       aggregation_level |-> aggregation_level]
            /\ res' = [raised |-> "",
                       data |-> level_report(deal_numbers, tranche_ids, cycle_code, calcs,
                                             aggregation_level, order).data]
    /\ pc' = "done"
    /\ UNCHANGED <<compiler, warehouse, config, prev>>

\* CalculationRepository.create: Calculation(**data), add, commit
CreateCalculation ==
    /\ pc = "ready"
    /\ \E def \in NewCalcs :
         /\ op' = "create_calculation"
         /\ req' = [def |-> def]
         /\ IF \E i \in DOMAIN calculations : calculations[i].def.name = def.name
            THEN /\ res' = [raised |-> "IntegrityError"]
                 /\ UNCHANGED calculations
            ELSE /\ calculations' = Append(calculations, [def |-> def, is_active |-> TRUE])
                 /\ res' = [raised |-> "", id |-> Len(calculations) + 1]
    /\ pc' = "ready"
    /\ prev' = <<>>
    /\ UNCHANGED <<compiler, warehouse, reports, report_deals, report_tranches,
                   report_calculations, execution_logs>>

\* ReportService.create_report_template
CreateReportTemplate ==
    /\ pc = "ready"
    /\ Len(reports) < MaxReports
    /\ \E aggregation_level \in GroupLevel, selected_deals \in DealLists,
          selected_tranches \in TrancheLists, selected_calculations \in CalcNameLists :
         LET found == {i \in DOMAIN calculations :
                          /\ calculations[i].def.name \in Range(selected_calculations)
                          /\ calculations[i].is_active}
             id == Len(reports) + 1
         IN  /\ op' = "create_report_template"
             /\ req' = [aggregation_level |-> aggregation_level,
                        selected_deals |-> selected_deals,
                        selected_tranches |-> selected_tranches,
                        selected_calculations |-> selected_calculations]
             /\ IF Cardinality(found) # Len(selected_calculations)
                THEN /\ res' = [raised |-> "ReportGenerationError"]
                     /\ UNCHANGED <<reports, report_deals, report_tranches,
                                    report_calculations>>
                ELSE \E order \in Orders(found) :
                     /\ reports' = Append(reports,
                            [name |-> "Report", description |-> "",
                             aggregation_level |-> aggregation_level, is_active |-> TRUE])
                     /\ report_deals' = report_deals \o
                            [i \in DOMAIN selected_deals |->
                                [report_id |-> id, deal_number |-> selected_deals[i]]]
                     /\ report_tranches' = report_tranches \o
                            Flatten([t \in DOMAIN selected_tranches |->
                                [d \in DOMAIN selected_deals |->
                                    [report_id |-> id, deal_number |-> selected_deals[d],
                                     tranche_id |-> selected_tranches[t]]]])
                     /\ report_calculations' = report_calculations \o
                            [i \in DOMAIN order |->
                                [report_id |-> id, calculation_id |-> order[i],
                                 display_order |-> i - 1]]
                     /\ res' = [raised |-> "", report_id |-> id]
    /\ pc' = "ready"
    /\ prev' = <<>>
    /\ UNCHANGED <<compiler, warehouse, calculations, execution_logs>>

\* error_message = None, and str(e) of the two errors execute_report meets
NoMessage == ""
NotFoundMessage == "Report template not found"
StatementMessage == "OperationalError"
\* a log entry that drops the message
LogEntryWithoutMessage(report_id, cycle_code, row_count, success, error_message) ==
    [report_id |-> report_id, cycle_code |-> cycle_code,
     row_count |-> row_count, success |-> success, error_message |-> NoMessage]
\* ReportService._log_execution
LogEntry(report_id, cycle_code, row_count, success, error_message) ==
    [report_id |-> report_id, cycle_code |-> cycle_code,
     row_count |-> row_count, success |-> success, error_message |-> error_message]

\* ReportService.execute_report
ExecuteReport ==
    /\ pc = "ready"
    /\ \E report_id \in 1..MaxReports, cycle_code \in RequestCycles :
         /\ op' = "execute_report"
         /\ req' = [report_id |-> report_id, cycle_code |-> cycle_code]
         /\ IF ~ActiveReport(report_id)
            THEN /\ execution_logs' =
                        Append(execution_logs,
                               LogEntry(report_id, cycle_code, 0, FALSE, NotFoundMessage))
                 /\ res' = [raised |-> "ReportGenerationError",
                            message |-> NotFoundMessage]
            ELSE LET deal_numbers == ReportDealNumbers(report_id)
                     tranche_ids == ReportTrancheIds(report_id)
                     calcs == ReportCalcs(report_id)
                     aggregation_level == reports[report_id].aggregation_level
                 IN  \E order \in Orders(BaseResults(deal_numbers, tranche_ids, cycle_code,
                                                     aggregation_level)) :
                        LET out == level_report(deal_numbers, tranche_ids, cycle_code,
                                                calcs, aggregation_level, order)
                        IN  /\ execution_logs' =
                                   Append(execution_logs,
                                          LogEntry(report_id, cycle_code, Len(out.data), TRUE,
                                                   NoMessage))
                            /\ res' = [raised |-> "",
                                       aggregation_level |-> aggregation_level,
                                       row_count |-> Len(out.data),
                                       columns |-> [i \in DOMAIN calcs |-> calcs[i].name],
                                       data |-> out.data,
                                       executed |-> out.executed]
    /\ pc' = "executed"
    /\ prev' = <<>>
    /\ UNCHANGED <<compiler, warehouse, calculations, reports, report_deals, report_tranches,
                   report_calculations>>

\* ReportService.preview_report_sql; prev keeps the call it follows
PreviewReportSql ==
    /\ pc \in {"ready", "executed"}
    /\ \E report_id \in 1..MaxReports, cycle_code \in RequestCycles :
         /\ op' = "preview_report_sql"
         /\ req' = [report_id |-> report_id, cycle_code |-> cycle_code]
         /\ IF ~ActiveReport(report_id)
            THEN res' = [raised |-> "ReportGenerationError"]
            ELSE \E tranche_ids \in Orders(Range(ReportTrancheIds(report_id))) :
                    LET deal_numbers == ReportDealNumbers(report_id)
                        calcs == ReportCalcs(report_id)
                    IN  res' = IF FirstRaise(calcs) # ""
                               THEN [raised |-> FirstRaise(calcs)]
                               ELSE [raised |-> "",
                                     deal_numbers |-> deal_numbers,
                                     tranche_ids |-> tranche_ids,
                                     sql_query |-> generate_orm_level_query(
                                         deal_numbers, tranche_ids, cycle_code, calcs,
                                         reports[report_id].aggregation_level)]
    /\ prev' = [op |-> op, req |-> req, res |-> res]
    /\ pc' = "done"
    /\ UNCHANGED <<compiler, warehouse, config>>

NextSubquery == BuildCalculationSubquery
SpecSubquery == Init /\ [][NextSubquery]_vars

NextEngine == ExecuteReportQuery
SpecEngine == InitReport /\ [][NextEngine]_vars

NextReport == ExecuteReportQuery \/ ExecuteLevelReport
SpecReport == InitReport /\ [][NextReport]_vars

NextService ==
    \/ CreateCalculation
    \/ CreateReportTemplate
    \/ ExecuteReport
    \/ PreviewReportSql
SpecService == InitService /\ [][NextService]_vars

\* ------------------------------------------------------ reference notions
\* the tranches and balance rows a filter selects, read off the tables
FilteredTranches(deal_numbers, tranche_ids) ==
    {t \in tranche : t[1] \in deal /\ t[1] \in Range(deal_numbers)
                     /\ t[2] \in Range(tranche_ids)}
FilteredBals(deal_numbers, tranche_ids, cycle_code) ==
    {b \in tranchebal : /\ <<b.dl_nbr, b.tr_id>> \in FilteredTranches(deal_numbers, tranche_ids)
                        /\ b.cycle_cde = cycle_code}

\* the base grain enumeration: distinct (deal[, tranche], cycle) keys
BaseGrainKeys(deal_numbers, tranche_ids, cycle_code, aggregation_level) ==
    {<<b.dl_nbr, IF aggregation_level = "tranche" THEN b.tr_id ELSE NoTrId, b.cycle_cde>> :
        b \in FilteredBals(deal_numbers, tranche_ids, cycle_code)}

\* the grain key of a row of the consolidated query
RowKey(cells, aggregation_level) ==
    <<cells[<<"deal_number">>][2],
      IF aggregation_level = "tranche" THEN cells[<<"tranche_id">>][2] ELSE NoTrId,
      cells[<<"cycle_code">>][2]>>

\* the grain key of a row of a calculation's subquery
SubKey(cells, aggregation_level) ==
    <<cells[<<"calc_deal_nbr">>][2],
      IF aggregation_level = "tranche" THEN cells[<<"calc_tranche_id">>][2] ELSE NoTrId>>

RECURSIVE SumBal(_, _)
SumBal(bals, field) ==
    IF bals = {} THEN 0
    ELSE LET b == CHOOSE x \in bals : TRUE IN b[field] + SumBal(bals \ {b}, field)
RECURSIVE SumBalProduct(_, _, _)
SumBalProduct(bals, field, weight) ==
    IF bals = {} THEN 0
    ELSE LET b == CHOOSE x \in bals : TRUE
         IN  b[field] * b[weight] + SumBalProduct(bals \ {b}, field, weight)

\* the balance rows of one subquery key that satisfy the request's filter
KeyBals(r, key) ==
    {b \in FilteredBals(r.deal_numbers, r.tranche_ids, r.cycle_code) :
        /\ b.dl_nbr = key[1]
        /\ r.aggregation_level = "tranche" => b.tr_id = key[2]}

SubqueryRan == op = "build_calculation_subquery" /\ res.raised = ""
QueryRan == op = "execute_report_query" /\ res.raised = ""

\* ----------------------------------------------------------------- claims
\* C2: the subquery of a calculation returns at most one row per grain key
\* (deal, or deal and tranche), for every aggregation function, source
\* model and filter.
C2_GrainIntegrity ==
    SubqueryRan =>
        \A x \in res.rows, y \in res.rows :
            SubKey(x.cells, req.aggregation_level) = SubKey(y.cells, req.aggregation_level)
                => x = y
\* a deal-grain subquery that aggregated two tranches of deal 101 into a row
C2_Witness ==
    /\ SubqueryRan
    /\ req.aggregation_level = "deal"
    /\ req.calc.source_model = "TrancheBal"
    /\ Cardinality(KeyBals(req, <<101, NoTrId>>)) = 2
    /\ \E x \in res.rows : SubKey(x.cells, "deal") = <<101, NoTrId>>

\* C5: the subquery's WHERE has the tranche-id predicate only if Tranche is
\* in the calculation's join chain, and the cycle predicate only if
\* TrancheBal is: it references no entity outside the join path.
C5_FiltersOnlyOnJoined ==
    op = "build_calculation_subquery" =>
        \A i \in DOMAIN res.stmt.where :
            res.stmt.where[i].model \in {"Deal"} \cup Range(res.stmt.joins)

\* C8: a WEIGHTED_AVG over a grain key whose weights sum to 0 is null, and
\* no WEIGHTED_AVG ends in a division error.
C8_WeightedAvgNullSafe ==
    (SubqueryRan /\ req.calc.aggregation_function = "WEIGHTED_AVG") =>
        \A x \in res.rows :
            LET v == x.cells[get_calc_column_name(req.calc)]
                bals == KeyBals(req, SubKey(x.cells, req.aggregation_level))
            IN  /\ v # DivError
                /\ (req.calc.source_model = "TrancheBal"
                    /\ SumBal(bals, req.calc.weight_field) = 0) => v = Null
\* a weighted average over a key whose balances are all 0
C8_Witness ==
    /\ SubqueryRan
    /\ req.calc = WeightedAvgRate
    /\ \E x \in res.rows :
          /\ KeyBals(req, SubKey(x.cells, req.aggregation_level)) # {}
          /\ SumBal(KeyBals(req, SubKey(x.cells, req.aggregation_level)),
                    "tr_end_bal_amt") = 0
          /\ x.cells[get_calc_column_name(req.calc)] = Null

C1_NoFanOut ==
    QueryRan =>
        Cardinality(res.rows)
            = Cardinality(BaseGrainKeys(req.deal_numbers, req.tranche_ids,
                                        req.cycle_code, req.aggregation_level))
\* a deal-grain report over a deal with two tranches, with a Deal-sourced and
\* a TrancheBal-sourced calculation
C1_Witness ==
    /\ QueryRan
    /\ req.aggregation_level = "deal"
    /\ req.calculations = <<DealCount, WeightedAvgRate>>
    /\ Cardinality(FilteredBals(req.deal_numbers, req.tranche_ids, req.cycle_code)) = 2
    /\ Cardinality(res.rows) = 1

ReportRan == op \in {"execute_report_query", "execute_level_report"} /\ res.raised = ""
ResultRows ==
    IF op = "execute_report_query"
    THEN {[dl_nbr |-> r.cells[<<"deal_number">>][2],
           tr_id |-> IF req.aggregation_level = "tranche"
                     THEN r.cells[<<"tranche_id">>][2] ELSE NoTrId,
           values |-> [n \in {req.calculations[i].name : i \in DOMAIN req.calculations}
                          |-> r.cells[n]]] : r \in res.rows}
    ELSE {[dl_nbr |-> res.data[i].dl_nbr, tr_id |-> res.data[i].tr_id,
           values |-> res.data[i].values] : i \in DOMAIN res.data}

\* C6: a deal listed in the filter that has no TrancheBal row of the
\* requested cycle within the filter's tranche set has no row in the report,
\* at either grain, for every list of calculations, whether the report is
\* the consolidated query's or the service's.
C6_AbsencePolicy ==
    ReportRan =>
        \A i \in DOMAIN req.deal_numbers :
            FilteredBals(<<req.deal_numbers[i]>>, req.tranche_ids, req.cycle_code) = {}
                => \A r \in ResultRows : r.dl_nbr # req.deal_numbers[i]
\* deals 101 and 102 are requested, both exist with a tranche in the filter,
\* 102 has a balance row only in another cycle: the report has rows, all of 101
C6_Witness ==
    /\ ReportRan
    /\ req.deal_numbers = <<101, 102>>
    /\ req.calculations # <<>>
    /\ FilteredTranches(<<102>>, req.tranche_ids) # {}
    /\ \E b \in tranchebal : b.dl_nbr = 102 /\ b.cycle_cde # req.cycle_code
    /\ FilteredBals(<<102>>, req.tranche_ids, req.cycle_code) = {}
    /\ ResultRows # {}
    /\ \A r \in ResultRows : r.dl_nbr = 101

\* C4: at deal grain the value of COUNT(Tranche.tr_id) reported for a deal is
\* the number of the deal's Tranche rows whose id is in the filter's tranche
\* set, however many TrancheBal rows the warehouse holds.
C4_TrancheCount ==
    (ReportRan /\ req.aggregation_level = "deal"
        /\ \E i \in DOMAIN req.calculations : req.calculations[i] = TrancheCount)
    => \A r \in ResultRows :
          r.values[TrancheCount.name]
              = Num(Cardinality(FilteredTranches(<<r.dl_nbr>>, req.tranche_ids)))

\* C3: when preview_report_sql follows execute_report for the same template
\* and cycle, the statement it returns is the statement execute_report sent
\* to the warehouse, built from the same deal, tranche and calculation lists.
C3_PreviewParity ==
    (op = "preview_report_sql" /\ res.raised = ""
        /\ prev.op = "execute_report" /\ prev.res.raised = "" /\ prev.req = req)
    => /\ prev.res.executed = <<res.sql_query.statement>>
       /\ res.tranche_ids = ReportTrancheIds(req.report_id)

\* C10: creating a WEIGHTED_AVG calculation without a weight field fails with
\* InvalidCalculationError, and no such calculation is ever stored where
\* compilation or execution can load it.
WeightedAvgWithoutWeight(def) ==
    def.aggregation_function = "WEIGHTED_AVG" /\ def.weight_field = NoWeight
C10_ValidationGate ==
    /\ (op = "create_calculation" /\ WeightedAvgWithoutWeight(req.def))
          => res.raised = "InvalidCalculationError"
    /\ \A i \in DOMAIN calculations : ~WeightedAvgWithoutWeight(calculations[i].def)

\* --------------------------------------------- compilation, step by step
\* calculations naming a field their source model does not have
NoSuchField ==
    Calc(<<"N", "o">>, "SUM", "TrancheBal", "no_such_field", NoWeight, "deal")
NoSuchWeight ==
    Calc(<<"N", "w">>, "WEIGHTED_AVG", "TrancheBal", "tr_pass_thru_rte",
         "no_such_field", "deal")
CompileCalcs == {DealCount, WeightedAvgRate, NoSuchField, NoSuchWeight}
CompileLists ==
    {l \in UNION {[1..n -> CompileCalcs] : n \in 0..MaxCalcs} :
        \A i, j \in DOMAIN l : l[i] = l[j] => i = j}

\* the base query as build_consolidated_query has it before its loop
base_query(aggregation_level) ==
    Select(BaseColumns(aggregation_level), NoAgg, BaseJoins, <<>>, <<>>, FALSE, <<>>)

\* the subqueries the loop has built when it ends or a calculation raises
RECURSIVE BuiltSubqueries(_, _, _, _, _)
BuiltSubqueries(calcs, deal_numbers, tranche_ids, cycle_code, aggregation_level) ==
    IF calcs = <<>> THEN <<>>
    ELSE IF get_sqlalchemy_function(Head(calcs)).raises # "" THEN <<>>
    ELSE <<build_calculation_subquery(Head(calcs), deal_numbers, tranche_ids,
                                      cycle_code, aggregation_level)>>
         \o BuiltSubqueries(Tail(calcs), deal_numbers, tranche_ids, cycle_code,
                            aggregation_level)

\* QueryEngine.build_consolidated_query, with the statements it has built by
\* the time it returns or raises
BuildConsolidatedQuery ==
    /\ pc = "ready"
    /\ \E calcs \in CompileLists, deal_numbers \in DealLists,
          tranche_ids \in TrancheLists, cycle_code \in RequestCycles,
          aggregation_level \in GroupLevel :
         /\ op' = "build_consolidated_query"
         /\ req' = [calculations |-> calcs, deal_numbers |-> deal_numbers,
                    tranche_ids |-> tranche_ids, cycle_code |-> cycle_code,
                    aggregation_level |-> aggregation_level]
         /\ res' = [raised |-> FirstRaise(calcs),
                    built |-> <<base_query(aggregation_level)>>
                              \o BuiltSubqueries(calcs, deal_numbers, tranche_ids,
                                                 cycle_code, aggregation_level)]
    /\ pc' = "done"
    /\ UNCHANGED <<compiler, warehouse, config, prev>>

NextCompile == BuildConsolidatedQuery
SpecCompile == InitService /\ [][NextCompile]_vars

\* a calculation whose source or weight field is no field of its source model
InvalidField(calc) ==
    \/ calc.source_field \notin Columns(calc.source_model)
    \/ /\ calc.weight_field # NoWeight
       /\ calc.weight_field \notin Columns(calc.source_model)

\* C11: a list with a calculation whose source or weight field is no field
\* of its source model is rejected with InvalidCalculationError, and no
\* statement (base query or subquery) has been built when the error is raised.
C11_FailFast ==
    (op = "build_consolidated_query"
        /\ \E i \in DOMAIN req.calculations : InvalidField(req.calculations[i]))
    => /\ res.raised = "InvalidCalculationError"
       /\ res.built = <<>>

\* C12: one call of execute_report sends exactly one statement to the data
\* warehouse, whatever the number of calculations and of result rows.
C12_SingleRoundTrip ==
    (op = "execute_report" /\ res.raised = "") => Len(res.executed) = 1

\* ------------------------------------------------- execution under faults
\* the errors of app/core/exceptions.py
TypedErrors ==
    {"ReportingSystemException", "CalculationNotFoundError",
     "CalculationAlreadyExistsError", "InvalidCalculationError",
     "ReportGenerationError", "DataWarehouseError", "ConfigurationError"}

\* the rows of a level report when the warehouse fails the k-th statement
\* sent (k >= 2, a calculation's query): the except clause of the loop
\* stores None for that calculation in that row and the loop goes on
data_with_failed_statement(deal_numbers, tranche_ids, cycle_code, calcs, aggregation_level, order, k) ==
    LET out == level_report(deal_numbers, tranche_ids, cycle_code, calcs,
                            aggregation_level, order)
        Built(c) == get_sqlalchemy_function(c).raises = ""
        built == SelectSeq(calcs, Built)
        row == ((k - 2) \div Len(built)) + 1
        name == built[((k - 2) % Len(built)) + 1].name
    IN  [i \in DOMAIN out.data |->
            IF i = row
            THEN [out.data[i] EXCEPT !.values = [@ EXCEPT ![name] = Null]]
            ELSE out.data[i]]

\* ReportService.execute_report when the warehouse raises OperationalError
\* on one statement (fault.statement, 0 for none) and when every commit of
\* _log_execution raises it (fault.log)
ExecuteReportUnderFaults ==
    /\ pc = "ready"
    /\ \E report_id \in DOMAIN reports, cycle_code \in RequestCycles, log_fails \in BOOLEAN :
         LET deal_numbers == ReportDealNumbers(report_id)
             tranche_ids == ReportTrancheIds(report_id)
             calcs == ReportCalcs(report_id)
             aggregation_level == reports[report_id].aggregation_level
         IN  \E order \in Orders(BaseResults(deal_numbers, tranche_ids, cycle_code,
                                             aggregation_level)) :
             LET out == level_report(deal_numbers, tranche_ids, cycle_code,
                                     calcs, aggregation_level, order)
             IN  \E k \in 0..Len(out.executed) :
                 LET fault == [statement |-> k, log |-> log_fails]
                     data == IF k >= 2
                             THEN data_with_failed_statement(deal_numbers, tranche_ids,
                                      cycle_code, calcs, aggregation_level, order, k)
                             ELSE out.data
                 IN  /\ ActiveReport(report_id)
                     /\ op' = "execute_report"
                     /\ req' = [report_id |-> report_id, cycle_code |-> cycle_code]
                     /\ IF log_fails
                        THEN \* _log_execution raises in the try block or in the
                             \* except block, and again in the except block
                             /\ UNCHANGED execution_logs
                             /\ res' = [raised |-> "OperationalError", fault |-> fault]
                        ELSE IF k = 1
                        THEN \* the base query raises: except Exception
                             /\ execution_logs' =
                                    Append(execution_logs,
                                           LogEntry(report_id, cycle_code, 0, FALSE,
                                                    StatementMessage))
                             /\ res' = [raised |-> "ReportGenerationError", fault |-> fault,
                                        message |-> StatementMessage]
                        ELSE /\ execution_logs' =
                                    Append(execution_logs,
                                           LogEntry(report_id, cycle_code, Len(data), TRUE,
                                                    NoMessage))
                             /\ res' = [raised |-> "", fault |-> fault,
                                        aggregation_level |-> aggregation_level,
                                        row_count |-> Len(data),
                                        columns |-> [i \in DOMAIN calcs |-> calcs[i].name],
                                        data |-> data,
                                        executed |-> out.executed]
    /\ pc' = "executed"
    /\ prev' = <<>>
    /\ UNCHANGED <<compiler, warehouse, calculations, reports, report_deals, report_tranches,
                   report_calculations>>

NextFaults == CreateReportTemplate \/ ExecuteReportUnderFaults
SpecFaults == InitService /\ [][NextFaults]_vars

\* C13: when the warehouse fails a statement while a report is evaluated, be
\* it the query of one calculation for one row, execute_report fails,
\* returns no rows and records a failed execution with row_count 0.
C13_NoPartialResults ==
    (op = "execute_report" /\ res.fault.statement > 0 /\ ~res.fault.log)
    => /\ res.raised = "ReportGenerationError"
       /\ execution_logs # <<>>
       /\ execution_logs[Len(execution_logs)]
             = LogEntry(req.report_id, req.cycle_code, 0, FALSE, StatementMessage)

\* C14: every failure of execute_report reaches the caller as one of the
\* typed errors, a failure of the execution log included.
C14_TypedErrors ==
    (op = "execute_report" /\ res.raised # "") => res.raised \in TypedErrors

\* -------------------------------------------------------------- ordering
\* position of a tranche id in the order of strings; no tranche id first
TrIdRank(tr_id) == CASE tr_id = NoTrId -> 0 [] tr_id = "A" -> 1 [] tr_id = "B" -> 2

\* a is not after b by deal number, then tranche id, then cycle code
NotAfter(a, b) ==
    \/ a.dl_nbr < b.dl_nbr
    \/ /\ a.dl_nbr = b.dl_nbr
       /\ \/ TrIdRank(a.tr_id) < TrIdRank(b.tr_id)
          \/ /\ a.tr_id = b.tr_id
             /\ a.cycle_cde <= b.cycle_cde

\* C15: the rows a report execution returns are ordered by deal number, then
\* tranche id, then cycle code.
C15_DeterministicOrdering ==
    op = "execute_level_report" =>
        \A i, j \in DOMAIN res.data : i < j => NotAfter(res.data[i], res.data[j])

\* C16: executing a report whose grain differs from the group_level of one
\* of its calculations fails with CompilationError.
C16_GrainMismatch ==
    (op = "execute_report" /\ ActiveReport(req.report_id)
        /\ \E i \in DOMAIN ReportCalcs(req.report_id) :
              ReportCalcs(req.report_id)[i].group_level
                 # reports[req.report_id].aggregation_level)
    => res.raised = "CompilationError"

\* ------------------------------------------------------------ soft delete
\* CalculationRepository.soft_delete of an active calculation
SoftDeleteCalculation ==
    /\ pc = "ready"
    /\ \E id \in DOMAIN calculations :
         /\ calculations[id].is_active
         /\ calculations' = [calculations EXCEPT ![id].is_active = FALSE]
         /\ op' = "soft_delete"
         /\ req' = [id |-> id]
         /\ res' = [raised |-> ""]
    /\ pc' = "ready"
    /\ prev' = <<>>
    /\ UNCHANGED <<compiler, warehouse, reports, report_deals, report_tranches,
                   report_calculations, execution_logs>>

NextDelete ==
    \/ CreateReportTemplate
    \/ SoftDeleteCalculation
    \/ ExecuteReport
    \/ PreviewReportSql
SpecDelete == InitService /\ [][NextDelete]_vars

\* the names of the calculations a call evaluated: the columns of an
\* executed report, the labels of the subquery columns of a previewed one
EvaluatedNames ==
    IF op = "execute_report" THEN Range(res.columns)
    ELSE {res.sql_query.statement.columns[i].label :
            i \in {j \in DOMAIN res.sql_query.statement.columns :
                      res.sql_query.statement.columns[j].c.model = "sub"}}

\* C17: every calculation execute_report or preview_report_sql evaluates is
\* active at the time of the call; one soft-deleted after the template was
\* created is not among the result columns.
C17_OnlyActiveCalculations ==
    (op \in {"execute_report", "preview_report_sql"} /\ res.raised = "")
    => \A n \in EvaluatedNames :
          \E id \in DOMAIN calculations :
             calculations[id].def.name = n /\ calculations[id].is_active

\* ------------------------------------ FilterBuilder under concurrent calls
\* arguments of build_report_query that reach the FilterBuilder
BuilderArgs ==
    [selected_deals : DealLists, selected_tranches : {<<>>, <<"A">>},
     cycle_code : RequestCycles]

\* a parameter name f"{prefix}_{suffix}" is the pair of a prefix without
\* underscore and a suffix; str(i) of the indexes of a list
IndexText == <<"0", "1", "2", "3">>
\* the placeholders deal_0, deal_1, ... of a list
ParamNames(prefix, values) == [i \in DOMAIN values |-> <<prefix, IndexText[i]>>]

\* self.parameters[param_name] = value
Put(parameters, param_name, value) ==
    [n \in DOMAIN parameters \cup {param_name} |->
        IF n = param_name THEN value ELSE parameters[n]]

\* self.parameters[prefix_i] = values[i] for every i
PutAll(parameters, prefix, values) ==
    [n \in DOMAIN parameters \cup Range(ParamNames(prefix, values)) |->
        IF n \in Range(ParamNames(prefix, values))
        THEN values[CHOOSE i \in DOMAIN values : ParamNames(prefix, values)[i] = n]
        ELSE parameters[n]]

\* build_where_clause: "Reset state"
KeepState(b) == b
ResetState(b) == NewFilterBuilder

\* build_where_clause: add_deal_filter and the append of its condition
WithDealFilter(b, args) ==
    IF args.selected_deals = <<>> THEN b
    ELSE [conditions |-> Append(b.conditions,
              [column |-> "d.dl_nbr", op |-> "IN",
               placeholders |-> ParamNames("deal", args.selected_deals)]),
          parameters |-> PutAll(b.parameters, "deal", args.selected_deals)]

\* build_where_clause: add_tranche_filter and the append of its condition
WithTrancheFilter(b, args) ==
    IF args.selected_tranches = <<>> THEN b
    ELSE [conditions |-> Append(b.conditions,
              [column |-> "t.tr_id", op |-> "IN",
               placeholders |-> ParamNames("tranche", args.selected_tranches)]),
          parameters |-> PutAll(b.parameters, "tranche", args.selected_tranches)]

\* build_where_clause: add_cycle_filter and the append of its condition
WithCycleFilter(b, args) ==
    IF args.cycle_code = 0 THEN b
    ELSE [conditions |-> Append(b.conditions,
              [column |-> "tb.cycle_cde", op |-> "=",
               placeholders |-> <<<<"cycle", "code">>>>]),
          parameters |-> Put(b.parameters, <<"cycle", "code">>, args.cycle_code)]

\* FilterBuilder.build_where_clause run alone on a builder
build_where_clause(args) ==
    WithCycleFilter(WithTrancheFilter(WithDealFilter(ResetState(NewFilterBuilder), args),
                                      args), args)

\* the statement of build_where_clause that follows a statement
NextStatement(at) ==
    CASE at = "reset" -> "deals"
      [] at = "deals" -> "tranches"
      [] at = "tranches" -> "cycle"
      [] at = "cycle" -> "return"

\* a thread enters build_report_query and its first build_where_clause
StartBuildReportQuery(t) ==
    /\ threads[t].at = "idle"
    /\ \E args \in BuilderArgs :
         threads' = [threads EXCEPT ![t] = [@ EXCEPT !.at = "reset", !.call = 1,
                                                      !.args = args]]
    /\ UNCHANGED <<builder, warehouse, config, pc, op, req, res, prev>>

\* one statement of build_where_clause that writes the builder
BuilderStatement(t) ==
    /\ threads[t].at \in {"reset", "deals", "tranches", "cycle"}
    /\ builder' = CASE threads[t].at = "reset" -> ResetState(builder)
                    [] threads[t].at = "deals" -> WithDealFilter(builder, threads[t].args)
                    [] threads[t].at = "tranches" ->
                          WithTrancheFilter(builder, threads[t].args)
                    [] threads[t].at = "cycle" -> WithCycleFilter(builder, threads[t].args)
    /\ threads' = [threads EXCEPT ![t].at = NextStatement(@)]
    /\ UNCHANGED <<warehouse, config, pc, op, req, res, prev>>

\* return where_clause, self.parameters.copy(): the first call gives
\* build_report_query its where_clause and params, the second its
\* main_where_clause
ReturnWhereClause(t) ==
    /\ threads[t].at = "return"
    /\ threads' = [threads EXCEPT ![t] =
          IF @.call = 1
          THEN [@ EXCEPT !.where_clause = builder.conditions,
                         !.params = builder.parameters,
                         !.call = 2, !.at = "reset"]
          ELSE [@ EXCEPT !.main_where_clause = builder.conditions, !.at = "done"]]
    /\ UNCHANGED <<builder, warehouse, config, pc, op, req, res, prev>>

EmptyWarehouse == deal = {} /\ tranche = {} /\ tranchebal = {}
InitBuilder == EmptyWarehouse /\ Config /\ Idle
NextBuilder ==
    \E t \in Threads :
        \/ StartBuildReportQuery(t)
        \/ BuilderStatement(t)
        \/ ReturnWhereClause(t)
SpecBuilder == InitBuilder /\ [][NextBuilder]_vars

\* C18: a call of build_report_query that runs concurrently with another on
\* the same builder returns the WHERE clauses and the parameter map that its
\* own arguments give on a builder used by it alone, under every interleaving.
C18_ConcurrentCompilation ==
    \A t \in Threads : \A u \in Threads \ {t} :
        (/\ threads[t].at = "done"
         /\ threads[u].at # "idle"
         /\ threads[u].args # threads[t].args) =>
            /\ threads[t].where_clause = build_where_clause(threads[t].args).conditions
            /\ threads[t].main_where_clause = build_where_clause(threads[t].args).conditions
            /\ threads[t].params = build_where_clause(threads[t].args).parameters

\* -------------------------------------------------- process_report_results
\* the attributes every result row has besides its columns: the sequence
\* methods of a row
RowMethods == {<<"c", "o", "u", "n", "t">>, <<"i", "n", "d", "e", "x">>}
\* a bound method of the row
Method == <<"method", 0, 1>>

\* getattr(result, name, None): an attribute of the row object wins over a
\* column of that name, a missing name gives the default
getattr(result, name) ==
    IF name \in RowMethods THEN Method
    ELSE IF name \in DOMAIN result.cells THEN result.cells[name]
    ELSE Null

\* QueryEngine.process_report_results
process_report_results(results, calcs, aggregation_level) ==
    [i \in DOMAIN results |->
        ReportRow(results[i].cells[<<"deal_number">>],
                  IF aggregation_level = "tranche"
                  THEN results[i].cells[<<"tranche_id">>] ELSE NoTrId,
                  results[i].cells[<<"cycle_code">>],
                  [n \in {calcs[j].name : j \in DOMAIN calcs} |->
                      getattr(results[i], n)])]

\* calculations as the API accepts them: any name of 1 to 100 characters
RowCount ==
    Calc(<<"c", "o", "u", "n", "t">>, "COUNT", "Tranche", "tr_id", NoWeight, "deal")
ProcessCalcLists ==
    {l \in UNION {[1..n -> {RowCount, WeightedAvgRate}] : n \in 0..MaxCalcs} :
        \A i, j \in DOMAIN l : l[i] = l[j] => i = j}

\* execute_report_query, then process_report_results on the rows as they
\* arrived
ProcessReportResults ==
    /\ pc = "ready"
    /\ \E calcs \in ProcessCalcLists, deal_numbers \in DealLists,
          tranche_ids \in TrancheLists, cycle_code \in RequestCycles,
          aggregation_level \in GroupLevel :
         \E results \in Orders(RowsOf(build_consolidated_query(deal_numbers,
                                  tranche_ids, cycle_code, calcs, aggregation_level))) :
            /\ req' = [calculations |-> calcs, deal_numbers |-> deal_numbers,
                       tranche_ids |-> tranche_ids, cycle_code |-> cycle_code,
                       aggregation_level |-> aggregation_level]
            /\ res' = [raised |-> "", results |-> results,
                       data |-> process_report_results(results, calcs,
                                                       aggregation_level)]
    /\ op' = "process_report_results"
    /\ pc' = "done"
    /\ UNCHANGED <<compiler, warehouse, config, prev>>

NextProcess == ProcessReportResults
SpecProcess == InitReport /\ [][NextProcess]_vars

\* the label of the column the consolidated query selects for its j-th
\* calculation
CalcLabel(j) ==
    build_consolidated_query(req.deal_numbers, req.tranche_ids, req.cycle_code,
                             req.calculations, req.aggregation_level)
        .columns[Len(BaseColumns(req.aggregation_level)) + j].label

MaxNameLen == 3
NameChars == {"a", "B", "1", " ", "-", "."}
ArbitraryNames == UNION {[1..n -> NameChars] : n \in 1..MaxNameLen}

\* build_consolidated_query for one calculation of the given name
AliasCalculation ==
    /\ pc = "ready"
    /\ \E name \in ArbitraryNames, deal_numbers \in DealLists,
          tranche_ids \in TrancheLists, cycle_code \in RequestCycles,
          aggregation_level \in GroupLevel :
         LET calc == Calc(name, "COUNT", "Deal", "dl_nbr", NoWeight, "deal")
         IN  /\ req' = [calculations |-> <<calc>>, deal_numbers |-> deal_numbers,
                        tranche_ids |-> tranche_ids, cycle_code |-> cycle_code,
                        aggregation_level |-> aggregation_level]
             /\ res' = [raised |-> "",
                        stmt |-> build_consolidated_query(deal_numbers, tranche_ids,
                                     cycle_code, <<calc>>, aggregation_level)]
    /\ op' = "alias_calculation"
    /\ pc' = "done"
    /\ UNCHANGED <<compiler, warehouse, config, prev>>

NextAlias == AliasCalculation
SpecAlias == InitBuilder /\ [][NextAlias]_vars

Digits == {"0", "1", "2", "3", "4", "5", "6", "7", "8", "9"}
AlphaNumeric == Range(UpperCase) \cup Range(LowerCase) \cup Digits
\* the alias of the computed column in the calculation's subquery
SubqueryAlias ==
    LET sub == res.stmt.outerjoins[1].stmt IN sub.columns[Len(sub.columns)].label
\* the column the consolidated query adds for the calculation
FinalColumn == res.stmt.columns[Len(res.stmt.columns)]

\* C20: whatever the calculation's name, the alias of its subquery column is a
\* SQL-safe identifier derived from the name: only alphanumeric characters and
\* underscores, no run of underscores, no leading digit; the name itself is
\* only the label of the final result column, which selects that alias.
C20_SqlSafeAlias ==
    op = "alias_calculation" =>
        /\ Len(SubqueryAlias) >= 1
        /\ \A i \in DOMAIN SubqueryAlias : SubqueryAlias[i] \in AlphaNumeric \cup {"_"}
        /\ \A i \in 1..(Len(SubqueryAlias) - 1) :
              ~(SubqueryAlias[i] = "_" /\ SubqueryAlias[i + 1] = "_")
        /\ SubqueryAlias[1] \notin Digits
        /\ FinalColumn.c.column = SubqueryAlias
        /\ FinalColumn.label = req.calculations[1].name

\* ---------------------------------------------------- sanitize_identifier
\* the name with its special characters left in place
KeepSpecial(name) == name

\* re.sub(r'[^a-zA-Z0-9_]', '_', name)
ReplaceSpecial(name) ==
    [i \in DOMAIN name |-> IF name[i] \in AlphaNumeric \cup {"_"} THEN name[i] ELSE "_"]

\* re.sub(r'_+', '_', s)
RECURSIVE CollapseRuns(_)
CollapseRuns(s) ==
    IF Len(s) <= 1 THEN s
    ELSE IF s[1] = "_" /\ s[2] = "_" THEN CollapseRuns(Tail(s))
    ELSE <<s[1]>> \o CollapseRuns(Tail(s))

\* str.lstrip('_'), str.rstrip('_') and str.strip('_')
RECURSIVE LStrip(_)
LStrip(s) == IF s # <<>> /\ s[1] = "_" THEN LStrip(Tail(s)) ELSE s
RECURSIVE RStrip(_)
RStrip(s) ==
    IF s # <<>> /\ s[Len(s)] = "_" THEN RStrip(SubSeq(s, 1, Len(s) - 1)) ELSE s
Strip(s) == RStrip(LStrip(s))

\* the prefix and the fallback the two functions write
CalcPrefix == <<"c", "a", "l", "c", "_">>
Calculation == <<"c", "a", "l", "c", "u", "l", "a", "t", "i", "o", "n">>

\* shared.utils.sanitize_identifier
sanitize_identifier(name) ==
    LET sanitized == Strip(CollapseRuns(ReplaceSpecial(name)))
        prefixed == IF sanitized # <<>> /\ sanitized[1] \in Digits
                    THEN CalcPrefix \o sanitized ELSE sanitized
    IN  IF prefixed # <<>> THEN prefixed ELSE Calculation

\* ReportQueryBuilder._sanitize_calc_name
sanitize_calc_name(calc_name) ==
    LET sanitized == Strip(CollapseRuns(ReplaceSpecial(calc_name)))
        prefixed == IF sanitized # <<>> /\ sanitized[1] \in Digits
                    THEN CalcPrefix \o sanitized ELSE sanitized
    IN  IF prefixed # <<>> THEN prefixed ELSE Calculation

\* the strings given to the two functions, the empty one included
SanitizeInputs == UNION {[1..n -> NameChars \cup {"_"}] : n \in 0..MaxNameLen}

\* one call of each function on the same string
SanitizeIdentifier ==
    /\ pc = "ready"
    /\ \E name \in SanitizeInputs :
         /\ req' = [name |-> name]
         /\ res' = [raised |-> "", sanitized |-> sanitize_identifier(name),
                    calc_sanitized |-> sanitize_calc_name(name)]
    /\ op' = "sanitize_identifier"
    /\ pc' = "done"
    /\ UNCHANGED <<compiler, warehouse, config, prev>>

SpecSanitize == InitBuilder /\ [][SanitizeIdentifier]_vars

\* a non-empty identifier of ASCII letters, digits and underscores, without
\* two underscores in a row and without a leading digit
SqlSafe(s) ==
    /\ Len(s) >= 1
    /\ \A i \in DOMAIN s : s[i] \in AlphaNumeric \cup {"_"}
    /\ \A i \in 1..(Len(s) - 1) : ~(s[i] = "_" /\ s[i + 1] = "_")
    /\ s[1] \notin Digits

\* C21: for every input string, the empty one and the strings of special
\* characters or digits included, sanitize_identifier and _sanitize_calc_name
\* return a non-empty string of ASCII letters, digits and underscores that has
\* no two consecutive underscores and does not start with a digit.
C21_SanitizeTotal ==
    op = "sanitize_identifier" =>
        /\ res.raised = ""
        /\ SqlSafe(res.sanitized)
        /\ SqlSafe(res.calc_sanitized)

\* a name that starts with a digit and holds a run of special characters
C21_Witness ==
    /\ op = "sanitize_identifier"
    /\ Len(req.name) = 3
    /\ req.name[1] \in Digits
    /\ req.name[2] \notin AlphaNumeric \cup {"_"}
    /\ req.name[3] \notin AlphaNumeric \cup {"_"}
    /\ res.sanitized = CalcPrefix \o <<req.name[1]>>

\* ------------------------------------------------------ execution logging
\* the config database after one create_report_template over the seeded
\* calculations: template 1 with its deals, tranches and calculations
StoredTemplate ==
    /\ calculations = SeededCalculations
    /\ execution_logs = <<>>
    /\ \E aggregation_level \in GroupLevel, selected_deals \in DealLists,
          selected_tranches \in TrancheLists,
          found \in SUBSET (DOMAIN SeededCalculations) \ {{}} :
         \E order \in Orders(found) :
            /\ reports = <<[name |-> "Report", description |-> "",
                            aggregation_level |-> aggregation_level, is_active |-> TRUE]>>
            /\ report_deals =
                   [i \in DOMAIN selected_deals |->
                       [report_id |-> 1, deal_number |-> selected_deals[i]]]
            /\ report_tranches =
                   Flatten([t \in DOMAIN selected_tranches |->
                       [d \in DOMAIN selected_deals |->
                           [report_id |-> 1, deal_number |-> selected_deals[d],
                            tranche_id |-> selected_tranches[t]]]])
            /\ report_calculations =
                   [i \in DOMAIN order |->
                       [report_id |-> 1, calculation_id |-> order[i],
                        display_order |-> i - 1]]

\* execute_report of the stored template or of a missing one, with or
\* without a failing warehouse statement
InitLogging == ScenarioWarehouse /\ StoredTemplate /\ Idle
SpecLogging == InitLogging /\ [][ExecuteReport \/ ExecuteReportUnderFaults]_vars

\* the config database accepts the commit of _log_execution
LogWritable == "fault" \in DOMAIN res => ~res.fault.log

build_single_calculation_query(calculation, deal_numbers, tranche_ids, cycle_code, aggregation_level) ==
    Select(
        BaseColumns(aggregation_level) \o <<Labelled(AggCol, calculation.name)>>,
        get_sqlalchemy_function(calculation),
        RequiredJoins(calculation),
        <<In("Deal", "dl_nbr", deal_numbers),
          In("Tranche", "tr_id", tranche_ids),
          Eq("TrancheBal", "cycle_cde", cycle_code)>>,
        ConsolidatedGroupBy(aggregation_level),
        FALSE,
        <<>>)

\* preview_calculation_sql and execute_calculation_query for the same
\* calculation, grain and parameters
PreviewCalculationSql ==
    /\ pc = "ready"
    /\ \E calculation \in EngineCalcs, sample_deals \in DealLists,
          sample_tranches \in TrancheLists, sample_cycle \in RequestCycles,
          aggregation_level \in GroupLevel :
         LET previewed == build_single_calculation_query(calculation, sample_deals,
                              sample_tranches, sample_cycle, aggregation_level)
             executed == build_consolidated_query(sample_deals, sample_tranches,
                             sample_cycle, <<calculation>>, aggregation_level)
             raised == FirstRaise(<<calculation>>)
         IN  /\ req' = [calculations |-> <<calculation>>, deal_numbers |-> sample_deals,
                        tranche_ids |-> sample_tranches, cycle_code |-> sample_cycle,
                        aggregation_level |-> aggregation_level]
             /\ res' = [raised |-> raised,
                        generated_sql |-> previewed,
                        executed_sql |-> executed,
                        preview_rows |-> IF raised = "" THEN RowsOf(previewed) ELSE {},
                        rows |-> IF raised = "" THEN RowsOf(executed) ELSE {}]
    /\ op' = "preview_calculation_sql"
    /\ pc' = "done"
    /\ UNCHANGED <<compiler, warehouse, config, prev>>

SpecPreview == InitReport /\ [][PreviewCalculationSql]_vars

\* the cells of the rows of a result
CellsOf(rows) == {r.cells : r \in rows}

\* C23: the statement preview_calculation_sql shows is the statement
\* execute_calculation_query runs for the same calculation, grain, deals,
\* tranches and cycle, and the two return the same rows on every data set.
C23_SingleCalculationParity ==
    (op = "preview_calculation_sql" /\ res.raised = "") =>
        /\ res.generated_sql = res.executed_sql
        /\ CellsOf(res.preview_rows) = CellsOf(res.rows)

\* -------------------------------------------------- update_report_template
\* an Optional field of ReportUpdateRequest: <<>> is None, <<v>> is v
Optional(values) == {<<>>} \cup {<<v>> : v \in values}
\* the names an update selects: one calculation, two in the order opposite
\* to the one they were created in, one twice, one that does not exist
UpdateCalcNameLists ==
    {<<TrancheCount.name>>, <<WeightedAvgRate.name, TrancheCount.name>>,
     <<TrancheCount.name, TrancheCount.name>>, <<WeightedAvgNoWeight.name>>}
\* the requests: name and description are changed together or not at all
ReportUpdateRequest ==
    {r \in [name : Optional({"Renamed"}), description : Optional({"Changed"}),
            selected_deals : Optional(DealLists),
            selected_tranches : Optional(TrancheLists),
            selected_calculations : Optional(UpdateCalcNameLists)] :
        (r.name = <<>>) <=> (r.description = <<>>)}

\* the tables of a template as the config database stores them
StoredTemplates ==
    [reports |-> reports, report_deals |-> report_deals,
     report_tranches |-> report_tranches, report_calculations |-> report_calculations]

\* query(...).filter(report_id == report_id).delete()
DeleteOf(rows, report_id) ==
    LET Other(r) == r.report_id # report_id IN SelectSeq(rows, Other)

\* the active calculations whose name is one of the names
FoundCalculations(names) ==
    {i \in DOMAIN calculations :
        calculations[i].def.name \in Range(names) /\ calculations[i].is_active}

\* the session of update_report_template for a stored template when it
\* reaches its raise or its commit, the calculations found arriving in the
\* given order
update_session(report_id, request, order) ==
    LET named == IF request.name # <<>>
                 THEN [reports EXCEPT ![report_id].name = request.name[1]] ELSE reports
        described == IF request.description # <<>>
                     THEN [named EXCEPT ![report_id].description = request.description[1]]
                     ELSE named
        deals == IF request.selected_deals # <<>>
                 THEN DeleteOf(report_deals, report_id) \o
                      [i \in DOMAIN request.selected_deals[1] |->
                          [report_id |-> report_id,
                           deal_number |-> request.selected_deals[1][i]]]
                 ELSE report_deals
        deal_numbers == IF request.selected_deals # <<>>
                        THEN request.selected_deals[1]
                        ELSE ReportDealNumbers(report_id)
        tranches == IF request.selected_tranches # <<>>
                    THEN DeleteOf(report_tranches, report_id) \o
                         Flatten([t \in DOMAIN request.selected_tranches[1] |->
                             [d \in DOMAIN deal_numbers |->
                                 [report_id |-> report_id, deal_number |-> deal_numbers[d],
                                  tranche_id |-> request.selected_tranches[1][t]]]])
                    ELSE report_tranches
        missing == /\ request.selected_calculations # <<>>
                   /\ Len(order) # Len(request.selected_calculations[1])
        calcs == IF request.selected_calculations = <<>> THEN report_calculations
                 ELSE IF missing THEN DeleteOf(report_calculations, report_id)
                 ELSE DeleteOf(report_calculations, report_id) \o
                      [i \in DOMAIN order |->
                          [report_id |-> report_id, calculation_id |-> order[i],
                           display_order |-> i - 1]]
    IN  [raised |-> IF missing THEN "ReportGenerationError" ELSE "",
         tables |-> [reports |-> described, report_deals |-> deals,
                     report_tranches |-> tranches, report_calculations |-> calcs]]

\* a close that keeps what the session changed
CloseKeeping(stored, session) == session

\* Session.close() of get_config_session after a raise: the transaction is
\* rolled back
Close(stored, session) == stored

\* ReportService.update_report_template, and the end of its request
UpdateReportTemplate ==
    /\ pc = "ready"
    /\ \E report_id \in 1..(MaxReports + 1), request \in ReportUpdateRequest :
         /\ op' = "update_report_template"
         /\ req' = [report_id |-> report_id, request |-> request]
         /\ IF ~ActiveReport(report_id)
            THEN /\ res' = [raised |-> "ReportGenerationError"]
                 /\ UNCHANGED <<reports, report_deals, report_tranches,
                                report_calculations>>
            ELSE \E order \in Orders(IF request.selected_calculations = <<>> THEN {}
                                     ELSE FoundCalculations(request.selected_calculations[1])) :
                 LET session == update_session(report_id, request, order)
                     after == IF session.raised # ""
                              THEN Close(StoredTemplates, session.tables)
                              ELSE session.tables
                 IN  /\ reports' = after.reports
                     /\ report_deals' = after.report_deals
                     /\ report_tranches' = after.report_tranches
                     /\ report_calculations' = after.report_calculations
                     /\ res' = [raised |-> session.raised]
    /\ pc' = "ready"
    /\ prev' = <<>>
    /\ UNCHANGED <<compiler, warehouse, calculations, execution_logs>>

InitTemplates == EmptyWarehouse /\ Config /\ Idle
SpecTemplates == InitTemplates /\ [][CreateReportTemplate \/ UpdateReportTemplate]_vars

\* updates of one stored template, and of a template that does not exist
InitUpdate == EmptyWarehouse /\ StoredTemplate /\ Idle
SpecUpdate == InitUpdate /\ [][UpdateReportTemplate]_vars

\* the (deal_number, tranche_id) pairs of a template's ReportTranche rows
TranchePairs(report_id) ==
    {<<report_tranches[i].deal_number, report_tranches[i].tranche_id>> :
        i \in {j \in DOMAIN report_tranches : report_tranches[j].report_id = report_id}}

\* C24: after any sequence of create_report_template and
\* update_report_template calls, the ReportTranche rows of every stored
\* template are the cross product of its ReportDeal deal numbers and its
\* selected tranche ids; no row names a deal the template no longer has.
C24_TrancheRowsMatchDeals ==
    \A report_id \in DOMAIN reports :
        TranchePairs(report_id) =
            Range(ReportDealNumbers(report_id)) \X Range(ReportTrancheIds(report_id))

\* every name of the list is the name of an active calculation
Resolves(names) ==
    \A i \in DOMAIN names :
        \E c \in DOMAIN calculations :
            calculations[c].is_active /\ calculations[c].def.name = names[i]

\* C25: create_report_template, and update_report_template of a stored
\* template when selected_calculations is given, raise ReportGenerationError
\* exactly when a requested name does not resolve to an active calculation; a
\* request whose names all resolve is accepted, a repeated name included.
C25_CalculationValidation ==
    /\ op = "create_report_template" =>
          ((res.raised = "ReportGenerationError")
              <=> ~Resolves(req.selected_calculations))
    /\ (/\ op = "update_report_template"
        /\ req.report_id \in DOMAIN reports
        /\ req.request.selected_calculations # <<>>) =>
          ((res.raised = "ReportGenerationError")
              <=> ~Resolves(req.request.selected_calculations[1]))

\* C26: an update_report_template that fails, the template missing or a
\* requested calculation missing, leaves the stored templates as they were:
\* names, descriptions, deals, tranches and calculations.
C26_UpdateAtomic ==
    [][(op' = "update_report_template" /\ res'.raised # "") =>
          UNCHANGED <<reports, report_deals, report_tranches, report_calculations>>]_vars

\* an update that renamed the template and replaced its deals, tranches and
\* calculations in the session before a requested calculation was missing
C26_Witness ==
    /\ op = "update_report_template"
    /\ res.raised = "ReportGenerationError"
    /\ ActiveReport(req.report_id)
    /\ req.request.name # <<>>
    /\ req.request.selected_deals # <<>>
    /\ req.request.selected_tranches # <<>>
    /\ req.request.selected_calculations # <<>>
    /\ req.request.selected_deals[1] # ReportDealNumbers(req.report_id)
    /\ reports[req.report_id].name = "Report"
    /\ ReportCalcs(req.report_id) # <<>>

\* the names of a template's calculations in display_order: the columns of
\* execute_report and the selected_calculations of get_report_template_detail
StoredCalculationNames(report_id) ==
    [i \in DOMAIN ReportCalcs(report_id) |-> ReportCalcs(report_id)[i].name]

\* C27: a template's calculations are stored with display_order equal to
\* their position in the request's selected_calculations, so they are listed
\* in the order the user selected them.
C27_SelectedOrderKept ==
    /\ (op = "create_report_template" /\ res.raised = "") =>
          StoredCalculationNames(res.report_id) = req.selected_calculations
    /\ (/\ op = "update_report_template"
        /\ res.raised = ""
        /\ req.request.selected_calculations # <<>>) =>
          StoredCalculationNames(req.report_id) = req.request.selected_calculations[1]

\* ------------------------------------------- build_where_clause, in full
\* a value of additional_filters: None, a dict of min, max and equals (each
\* <<>> when absent or None), a list, or a scalar
NoneValue == [shape |-> "none", min |-> <<>>, max |-> <<>>, equals |-> <<>>, items |-> <<>>]
DictValue(min, max, equals) ==
    [shape |-> "dict", min |-> min, max |-> max, equals |-> equals, items |-> <<>>]
ListValue(items) ==
    [shape |-> "list", min |-> <<>>, max |-> <<>>, equals |-> <<>>, items |-> items]
ScalarValue(value) ==
    [shape |-> "scalar", min |-> <<>>, max |-> <<>>, equals |-> <<>>, items |-> <<value>>]

\* add_custom_filters, one item of filters.items()
WithCustomFilter(b, field, value) ==
    LET Cond(operator, suffix) ==
            [column |-> field, op |-> operator, placeholders |-> <<<<field, suffix>>>>]
        min == IF value.shape = "dict" /\ value.min # <<>>
               THEN [conditions |-> Append(b.conditions, Cond(">=", "min")),
                     parameters |-> Put(b.parameters, <<field, "min">>, value.min[1])]
               ELSE b
        max == IF value.shape = "dict" /\ value.max # <<>>
               THEN [conditions |-> Append(min.conditions, Cond("<=", "max")),
                     parameters |-> Put(min.parameters, <<field, "max">>, value.max[1])]
               ELSE min
        equals == IF value.shape = "dict" /\ value.equals # <<>>
                  THEN [conditions |-> Append(max.conditions, Cond("=", "eq")),
                        parameters |-> Put(max.parameters, <<field, "eq">>, value.equals[1])]
                  ELSE max
    IN  CASE value.shape = "none" -> b
          [] value.shape = "dict" -> equals
          [] value.shape = "list" ->
                IF value.items = <<>> THEN b
                ELSE [conditions |-> Append(b.conditions,
                          [column |-> field, op |-> "IN",
                           placeholders |-> ParamNames(field, value.items)]),
                      parameters |-> PutAll(b.parameters, field, value.items)]
          [] value.shape = "scalar" ->
                [conditions |-> Append(b.conditions, Cond("=", "filter")),
                 parameters |-> Put(b.parameters, <<field, "filter">>, value.items[1])]

\* add_custom_filters and the extend of self.conditions
RECURSIVE WithCustomFilters(_, _)
WithCustomFilters(b, filters) ==
    IF filters = <<>> THEN b
    ELSE WithCustomFilters(WithCustomFilter(b, Head(filters).field, Head(filters).value),
                           Tail(filters))

\* FilterBuilder.build_where_clause on a builder in any state
BuiltWhereClause(b, args) ==
    WithCustomFilters(
        WithCycleFilter(WithTrancheFilter(WithDealFilter(ResetState(b), args), args), args),
        args.additional_filters)

\* the arguments of a call: additional_filters is the list of its items
FilterFields == {"deal", "rate"}
FilterValues ==
    {NoneValue, DictValue(<<1>>, <<>>, <<>>), DictValue(<<1>>, <<9>>, <<5>>),
     ListValue(<<>>), ListValue(<<7, 8>>), ScalarValue(7)}
AdditionalFilters ==
    {<<>>} \cup {<<[field |-> f, value |-> v]>> : f \in FilterFields, v \in FilterValues}
    \cup {<<[field |-> "rate", value |-> DictValue(<<1>>, <<9>>, <<>>)],
            [field |-> "deal", value |-> ScalarValue(7)]>>}
WhereArgs ==
    [selected_deals : DealLists, selected_tranches : {<<>>, <<"A">>},
     cycle_code : {0} \cup RequestCycles, additional_filters : AdditionalFilters]

\* line 131 returns self.parameters.copy(), a new dict; line 102 binds
\* self.parameters to a new dict
ReturnsCopy == TRUE
ResetRebinds == TRUE
\* a map an earlier call returned, after a later call has run
EarlierMap(returned, b) ==
    IF ReturnsCopy \/ ResetRebinds THEN returned ELSE b.parameters

\* one call of build_where_clause on the builder; prev keeps what the call
\* before it was given and returned
BuildWhereClause ==
    /\ pc = "ready"
    /\ \E args \in WhereArgs :
         LET b == BuiltWhereClause(builder, args)
         IN  /\ builder' = b
             /\ req' = args
             /\ res' = [raised |-> "", where_clause |-> b.conditions,
                        params |-> b.parameters]
             /\ prev' = IF op = "build_where_clause"
                        THEN <<[args |-> req, where_clause |-> res.where_clause,
                                params |-> EarlierMap(res.params, b)]>>
                        ELSE <<>>
    /\ op' = "build_where_clause"
    /\ pc' = "ready"
    /\ UNCHANGED <<threads, warehouse, config>>

SpecWhere == InitBuilder /\ [][BuildWhereClause]_vars

\* the value the arguments supply for the i-th placeholder of a condition
Supplied(args, c, i) ==
    LET filter == CHOOSE f \in Range(args.additional_filters) : f.field = c.column
    IN  CASE c.column = "d.dl_nbr" -> args.selected_deals[i]
          [] c.column = "t.tr_id" -> args.selected_tranches[i]
          [] c.column = "tb.cycle_cde" -> args.cycle_code
          [] OTHER ->
               CASE c.op = ">=" -> filter.value.min[1]
                 [] c.op = "<=" -> filter.value.max[1]
                 [] c.op = "IN" -> filter.value.items[i]
                 [] c.op = "=" -> IF filter.value.shape = "dict"
                                  THEN filter.value.equals[1] ELSE filter.value.items[1]

\* the number of placeholders of a WHERE clause
RECURSIVE Placeholders(_)
Placeholders(conditions) ==
    IF conditions = <<>> THEN 0
    ELSE Len(Head(conditions).placeholders) + Placeholders(Tail(conditions))

\* C28: every placeholder of the WHERE clause build_where_clause returns has
\* an entry in the returned parameter map, the entry holds the value supplied
\* for that condition, and no two conditions share a parameter name.
C28_PlaceholdersBound ==
    op = "build_where_clause" =>
        /\ \A k \in DOMAIN res.where_clause :
             \A i \in DOMAIN res.where_clause[k].placeholders :
                /\ res.where_clause[k].placeholders[i] \in DOMAIN res.params
                /\ res.params[res.where_clause[k].placeholders[i]]
                      = Supplied(req, res.where_clause[k], i)
        /\ Cardinality(DOMAIN res.params) = Placeholders(res.where_clause)

\* C29: in a sequence of build_where_clause calls on one FilterBuilder each
\* call returns what a new FilterBuilder returns for the call's arguments, and
\* the parameter map the call before returned still holds what it held when
\* it was returned.
C29_CallIndependence ==
    op = "build_where_clause" =>
        /\ res.where_clause = BuiltWhereClause(NewFilterBuilder, req).conditions
        /\ res.params = BuiltWhereClause(NewFilterBuilder, req).parameters
        /\ \A i \in DOMAIN prev :
             prev[i].params = BuiltWhereClause(NewFilterBuilder, prev[i].args).parameters

\* a call with tranche and custom conditions was followed by a call without
\* them
C29_Witness ==
    /\ op = "build_where_clause"
    /\ prev # <<>>
    /\ prev[1].args.selected_tranches # <<>>
    /\ prev[1].args.additional_filters # <<>>
    /\ req.selected_tranches = <<>>
    /\ req.additional_filters = <<>>
    /\ DOMAIN res.params # DOMAIN prev[1].params
    /\ Len(res.where_clause) < Len(prev[1].where_clause)

\* --------------------------------- ReportQueryBuilder.build_report_query
\* a calculation as build_report_query receives it: a dict
CalcDict(name, formula, source_tables, group_level) ==
    [name |-> name, formula |-> formula, source_tables |-> source_tables,
     group_level |-> group_level]

\* ReportQueryBuilder.build_calculation_subquery: the SELECT of one
\* calculation, its computed column aliased by the sanitized name
ReportQueryBuilder_build_calculation_subquery(calculation, where_clause) ==
    LET group_by_fields == IF calculation.group_level = "tranche"
                           THEN <<"d.dl_nbr", "t.tr_id", "tb.cycle_cde">>
                           ELSE <<"d.dl_nbr", "tb.cycle_cde">>
    IN  [select |-> group_by_fields,
         formula |-> calculation.formula,
         column |-> sanitize_calc_name(calculation.name),
         from |-> <<"deal">>
                  \o (IF Range(calculation.source_tables) \cap {"tranche", "tranchebal"} # {}
                      THEN <<"tranche">> ELSE <<>>)
                  \o (IF "tranchebal" \in Range(calculation.source_tables)
                      THEN <<"tranchebal">> ELSE <<>>),
         where |-> where_clause,
         group_by |-> group_by_fields]

\* build_report_query, lines 118-137: the SELECT field and the LEFT JOIN of
\* one calculation
SelectField(calc) ==
    [subquery |-> CalcPrefix \o sanitize_calc_name(calc.name),
     column |-> sanitize_calc_name(calc.name),
     label |-> calc.name]
JoinClause(calc, where_clause, aggregation_level) ==
    [stmt |-> ReportQueryBuilder_build_calculation_subquery(calc, where_clause),
     alias |-> CalcPrefix \o sanitize_calc_name(calc.name),
     on |-> IF aggregation_level = "tranche"
            THEN <<"dl_nbr", "tr_id", "cycle_cde">> ELSE <<"dl_nbr", "cycle_cde">>]

\* ReportQueryBuilder.build_report_query on a builder in state b
build_report_query(b, calcs, aggregation_level, args) ==
    LET first == BuiltWhereClause(b, args)
        main == BuiltWhereClause(first, args)
    IN  [builder |-> main,
         main_query |->
            [select |-> IF aggregation_level = "tranche"
                        THEN <<"d.dl_nbr", "t.tr_id", "tb.cycle_cde">>
                        ELSE <<"d.dl_nbr", "tb.cycle_cde">>,
             select_fields |-> [k \in DOMAIN calcs |-> SelectField(calcs[k])],
             join_clauses |-> [k \in DOMAIN calcs |->
                                 JoinClause(calcs[k], first.conditions, aggregation_level)],
             where |-> main.conditions],
         params |-> first.parameters]

\* two calculations with different names and different formulas
ReportFormulas == <<"SUM(tb.tr_end_bal_amt)", "COUNT(t.tr_id)">>
ReportCalcPairs ==
    {<<CalcDict(n1, ReportFormulas[1], <<"tranchebal">>, "deal"),
       CalcDict(n2, ReportFormulas[2], <<"tranche">>, "deal")>> :
        n1 \in ArbitraryNames, n2 \in ArbitraryNames}
ReportArgs ==
    {a \in WhereArgs : /\ a.selected_tranches = <<>>
                       /\ a.cycle_code # 0
                       /\ a.additional_filters = <<>>}

\* one call of build_report_query for two calculations
BuildReportQuery ==
    /\ pc = "ready"
    /\ \E calcs \in ReportCalcPairs, aggregation_level \in GroupLevel, args \in ReportArgs :
         /\ calcs[1].name # calcs[2].name
         /\ LET built == build_report_query(builder, calcs, aggregation_level, args)
            IN  /\ builder' = built.builder
                /\ req' = [calculations |-> calcs, aggregation_level |-> aggregation_level,
                           args |-> args]
                /\ res' = [raised |-> "", main_query |-> built.main_query,
                           params |-> built.params]
    /\ op' = "build_report_query"
    /\ pc' = "done"
    /\ UNCHANGED <<threads, warehouse, config, prev>>

SpecReportQuery == InitBuilder /\ [][BuildReportQuery]_vars

\* the joined subqueries a SELECT field's qualifier names
Named(k) ==
    {j \in DOMAIN res.main_query.join_clauses :
        res.main_query.join_clauses[j].alias = res.main_query.select_fields[k].subquery}

\* C30: in the statement build_report_query builds for calculations with
\* pairwise different names no two calculations have the same subquery alias
\* or the same subquery column alias, and each final column names exactly the
\* subquery that computes the formula of its own calculation.
C30_AliasesUnique ==
    op = "build_report_query" =>
        \A k \in DOMAIN req.calculations :
            /\ \A j \in DOMAIN req.calculations :
                 j # k =>
                    /\ res.main_query.join_clauses[j].alias
                          # res.main_query.join_clauses[k].alias
                    /\ res.main_query.join_clauses[j].stmt.column
                          # res.main_query.join_clauses[k].stmt.column
            /\ Named(k) = {k}
            /\ res.main_query.join_clauses[k].stmt.formula = req.calculations[k].formula
            /\ res.main_query.select_fields[k].label = req.calculations[k].name

====
